---- MODULE Spec2Model ----
(***************************************************************************)
(* A model of the bal L4 load balancer: the backend pool and its health    *)
(* counters, the round-robin balancer, the hot-swapped runtime             *)
(* configuration, the admission counter and the per-connection handler.    *)
(***************************************************************************)
EXTENDS Integers, Sequences, FiniteSets, TLC

\* ------------------------------------------------------------------ bounds

\* concurrent connection-handler tasks
NumHandlers == 2
\* runtime configurations ever built (the boot one and the reloaded ones)
MaxSnaps == 2
\* cap on the consecutive failure / success counters (u32 in the code)
MaxCount == 2
\* largest pool of the round-robin specification
MaxPool == 3
\* sequential selections of the round-robin specification
MaxSelections == 6
\* concurrent callers of mark_failure / mark_success on one backend
NumMarkers == 3
\* concurrent callers of the ProtectionMode
NumCallers == 2
\* largest health_check_fail_threshold / health_check_success_threshold of
\* the sequential specification, and the calls it makes
MaxThreshold == 3
MaxCalls == 7
\* largest value of the clock (ms), of protection_window_ms, and the cap on
\* timeout_refused_window_count (u32 in the code)
MaxClock == 3
MaxWindow == 2
MaxWindowCount == 4
\* the same for the specification of concurrent ProtectionMode calls, whose
\* thresholds are 1..ConcMaxThreshold and whose window is 1 ms
ConcMaxThreshold == 2
ConcMaxClock == 2
ConcMaxWindowCount == 2

\* The supervisor is explored with at most MaxReloadQ requests waiting on the
\* reload channel and MaxReloads reload_config calls of the main loop.
MaxReloadQ == 2
MaxReloads == 3
\* ... and at most MaxRounds rounds of health probes
MaxRounds == 2
\* The health checker's ticker is followed for MaxIntervals whole
\* health_check_interval_ms after its creation.
MaxIntervals == 3
\* The tuning values are u64 in the code; the model keeps them in a narrow
\* unsigned type whose largest value is u64_MAX.
u64_MAX == 7

\* the largest usize, the width of active_connections
usize_MAX == 7

Handlers == 1..NumHandlers
Markers == 1..NumMarkers

\* ------------------------------------------------------------------ state

VARIABLES
    snaps,        \* every RuntimeConfig built so far; its index is its identity
    cfgCell,      \* AppState.config: the RuntimeConfig the ArcSwap holds
    lbCell,       \* AppState.load_balancer: the LoadBalancer the ArcSwap holds
    rr,           \* rr[s]: rr_index of the LoadBalancer built for snapshot s
    backends,     \* backends[s][p]: the BackendState at position p of pool s
    activeConns,  \* AppState.active_connections
    hs,           \* hs[h]: position and locals of connection handler h
    rl,           \* the supervisor's reload_config call in progress
    mk,           \* mk[m]: a mark_failure / mark_success call in progress
    rrHist,       \* addresses returned by the sequential selections so far
    rrClean,      \* all backends have been healthy at every selection so far
    calls,        \* the mark_failure / mark_success calls made one after the other
    seen,         \* the latest connect result: who observed it and its kind
    prot,         \* AppState.protection_mode: the fields of ProtectionMode
    pr,           \* pr[c]: the record_* call of caller c on the ProtectionMode
    clock,        \* now_unix_ms()
    win,          \* the window of failures as the calls made so far define it
    flips,        \* enable transitions minus the calls that returned true for one
    sup,          \* the supervisor: its position, pending signals and tasks
    hc            \* HealthChecker::run: its position, its ticker and its rounds

seqVars == <<calls, seen>>

protVars == <<prot, pr, clock, win, flips>>

supVars == <<sup, hc>>

vars == <<snaps, cfgCell, lbCell, rr, backends, activeConns, hs, rl, mk,
          rrHist, rrClean, seqVars, protVars, supVars>>

\* ---------------------------------------------------------------- helpers

RECURSIVE Factorial(_)
Factorial(n) == IF n <= 1 THEN 1 ELSE n * Factorial(n - 1)

\* The cursor of a balancer is a usize; it is kept modulo a common multiple
\* of the lengths a healthy subset of its pool can have, which preserves
\* index % len for every selection short of 2^64.
RRModulus(n) == Factorial(n)

Positions(n) == [i \in 1..n |-> i]

NoBackend == <<>>

\* ------------------------------------------------------------ BackendState

NewBackendState ==
    [healthy |-> TRUE, active |-> 0, cf |-> 0, cs |-> 0, cool |-> FALSE]

increment_connections_Twice(b) == [b EXCEPT !.active = b.active + 2]

increment_connections(b) == [b EXCEPT !.active = b.active + 1]

\* fetch_sub wraps below zero; the store puts the wrapped value back to 0
decrement_connections(b) ==
    IF b.active = 0 THEN [b EXCEPT !.active = 0]
    ELSE [b EXCEPT !.active = b.active - 1]

\* mark_failure, one atomic operation at a time
MarkFailureAdd(b) == [b EXCEPT !.cf = b.cf + 1]

MarkFailureReset(b) == [b EXCEPT !.cs = 0]

MarkFailureFlag_Strict(b, failures, max_failures) ==
    IF failures > max_failures THEN [b EXCEPT !.healthy = FALSE] ELSE b

MarkFailureFlag(b, failures, max_failures) ==
    IF failures >= max_failures THEN [b EXCEPT !.healthy = FALSE] ELSE b

mark_failure(b, max_failures) ==
    MarkFailureFlag(MarkFailureReset(MarkFailureAdd(b)), b.cf + 1, max_failures)

\* mark_success, one atomic operation at a time
MarkSuccessAdd(b) == [b EXCEPT !.cs = b.cs + 1]

MarkSuccessReset_Skipped(b) == b

MarkSuccessReset(b) == [b EXCEPT !.cf = 0]

MarkSuccessFlag_Strict(b, successes, min_successes) ==
    IF successes > min_successes /\ ~b.healthy
    THEN [b EXCEPT !.healthy = TRUE] ELSE b

MarkSuccessFlag(b, successes, min_successes) ==
    IF successes >= min_successes /\ ~b.healthy
    THEN [b EXCEPT !.healthy = TRUE] ELSE b

mark_success(b, min_successes) ==
    MarkSuccessFlag(MarkSuccessReset(MarkSuccessAdd(b)), b.cs + 1, min_successes)

\* The proxy path's variants: the counters move as in mark_success and
\* mark_failure, and a failure starts the backend's cooldown.
mark_connect_success(b, min_successes) == mark_success(b, min_successes)

mark_connect_failure(b, fail_threshold, cooldown_ms) ==
    [mark_failure(b, fail_threshold) EXCEPT !.cool = (cooldown_ms > 0)]

is_in_cooldown(b) == b.cool

\* ------------------------------------------------------------- BackendPool

PoolLen(s) == Len(snaps[s].pool)

healthy_backends(s) ==
    SelectSeq(Positions(PoolLen(s)), LAMBDA p : backends[s][p].healthy)

\* ------------------------------------------------------------ LoadBalancer

select_round_robin_OffByOne(healthy, index) ==
    healthy[((index + 1) % Len(healthy)) + 1]

select_round_robin(healthy, index) == healthy[(index % Len(healthy)) + 1]

FetchAddCursor(index, n) == (index + 1) % RRModulus(n)

\* ------------------------------------------------------------------ Config

\* What a configuration file may hold (max_concurrent_connections, backends,
\* health_check_fail_threshold, health_check_success_threshold,
\* backend_cooldown_ms).
Candidates ==
    { [max |-> m, pool |-> p, failT |-> 2, succT |-> 1, cooldown |-> 0] :
        m \in 0..1,
        p \in {<<>>, <<"B">>, <<"B", "B">>} }

validate(c) ==
    /\ c.pool # <<>>
    /\ \A i, j \in 1..Len(c.pool) : c.pool[i] = c.pool[j] => i = j
    /\ c.failT > 0
    /\ c.succT > 0
    /\ c.max > 0

\* validate_and_load: the file is read and validated, then every backend is
\* probed; reach is the set of positions whose probe connected.
ValidateAndLoadOk_NoProbe(readable, c, reach) == readable /\ validate(c)

ValidateAndLoadOk(readable, c, reach) ==
    /\ readable
    /\ validate(c)
    /\ LET failed_count == Len(c.pool) - Cardinality(reach)
       IN  failed_count # Len(c.pool)

NewPool(c) == [p \in 1..Len(c.pool) |-> NewBackendState]

\* ---------------------------------------------------------------- AppState

try_acquire_connection_Off(count, max_concurrent_connections) ==
    ~(count > max_concurrent_connections)

try_acquire_connection(count, max_concurrent_connections) ==
    ~(count >= max_concurrent_connections)

release_connection_Keep(count) == count

release_connection(count) == IF count > 0 THEN count - 1 ELSE count

\* ------------------------------------------------------ connection handler

IdleHandler ==
    [pc |-> "idle", cfg0 |-> 0, cfg |-> 0, lb |-> 0, pool |-> 0, left |-> 0,
     idx |-> 0, be |-> NoBackend, adm |-> FALSE, rel |-> 0]

Backend(be) == backends[be[1]][be[2]]

SetBackend(be, b) == [backends EXCEPT ![be[1]][be[2]] = b]

AfterAttempt_Again(r) == [r EXCEPT !.pc = "sweep1", !.be = NoBackend]

\* the healthy sweep goes on while attempts are left, then the full sweep
AfterAttempt(r) ==
    IF r.left > 1
    THEN [r EXCEPT !.pc = "sweep1", !.left = r.left - 1, !.be = NoBackend]
    ELSE [r EXCEPT !.pc = "sweep2", !.left = 0, !.idx = 1, !.be = NoBackend]

\* A task slot is free before its first task ("idle"), after a task that was
\* refused ("rejected") and after one that ran to its end ("idle" again); it
\* still shows how its last task ended: adm, whether it was admitted, and rel,
\* how often it released its slot.
FreePcs == {"idle", "rejected"}

\* The accept loop spawns the handler, which loads the configuration.
\* Free task slots are taken lowest first.
Accept(h) ==
    /\ hs[h].pc \in FreePcs
    /\ \A g \in Handlers : g < h => hs[g].pc \notin FreePcs
    /\ hs' = [hs EXCEPT ![h] = [IdleHandler EXCEPT !.pc = "acquire",
                                                   !.cfg0 = cfgCell]]
    /\ UNCHANGED <<snaps, cfgCell, lbCell, rr, backends, activeConns, rl, mk,
                   rrHist, rrClean,
                   seqVars, protVars, supVars>>

Admit_NoReturn(h) ==
    /\ hs[h].pc = "acquire"
    /\ IF try_acquire_connection(activeConns, snaps[hs[h].cfg0].max)
       THEN /\ activeConns' = activeConns + 1
            /\ hs' = [hs EXCEPT ![h] = [@ EXCEPT !.pc = "cwr_cfg", !.cfg0 = 0,
                                                 !.adm = TRUE]]
       ELSE /\ activeConns' = activeConns
            /\ hs' = [hs EXCEPT ![h] = [@ EXCEPT !.pc = "cwr_cfg", !.cfg0 = 0]]
    /\ UNCHANGED <<snaps, cfgCell, lbCell, rr, backends, rl, mk, rrHist, rrClean,
                   seqVars, protVars, supVars>>

\* try_acquire_connection with the limit of the configuration loaded at
\* accept; a refused handler returns at once (OverloadPolicy::Reject).
Admit(h) ==
    /\ hs[h].pc = "acquire"
    /\ IF try_acquire_connection(activeConns, snaps[hs[h].cfg0].max)
       THEN /\ activeConns' = activeConns + 1
            /\ hs' = [hs EXCEPT ![h] = [@ EXCEPT !.pc = "cwr_cfg", !.cfg0 = 0,
                                                 !.adm = TRUE]]
       ELSE /\ activeConns' = activeConns
            /\ hs' = [hs EXCEPT ![h] = [@ EXCEPT !.pc = "rejected", !.cfg0 = 0]]
    /\ UNCHANGED <<snaps, cfgCell, lbCell, rr, backends, rl, mk, rrHist, rrClean,
                   seqVars, protVars, supVars>>

\* connect_with_retry: state.config()
CwrLoadConfig(h) ==
    /\ hs[h].pc = "cwr_cfg"
    /\ hs' = [hs EXCEPT ![h] = [@ EXCEPT !.pc = "cwr_lb", !.cfg = cfgCell]]
    /\ UNCHANGED <<snaps, cfgCell, lbCell, rr, backends, activeConns, rl, mk,
                   rrHist, rrClean,
                   seqVars, protVars, supVars>>

\* connect_with_retry: state.load_balancer()
CwrLoadBalancer(h) ==
    /\ hs[h].pc = "cwr_lb"
    /\ hs' = [hs EXCEPT ![h] = [@ EXCEPT !.pc = "cwr_pool", !.lb = lbCell]]
    /\ UNCHANGED <<snaps, cfgCell, lbCell, rr, backends, activeConns, rl, mk,
                   rrHist, rrClean,
                   seqVars, protVars, supVars>>

\* connect_with_retry: state.backend_pool(), pool.healthy_backends()
CwrLoadPool(h) ==
    /\ hs[h].pc = "cwr_pool"
    /\ LET n == Len(healthy_backends(cfgCell))
       IN  hs' = [hs EXCEPT ![h] =
                   IF PoolLen(cfgCell) = 0
                   THEN [@ EXCEPT !.pc = "fail", !.pool = cfgCell]
                   ELSE IF n > 0
                   THEN [@ EXCEPT !.pc = "sweep1", !.pool = cfgCell, !.left = n]
                   ELSE [@ EXCEPT !.pc = "sweep2", !.pool = cfgCell, !.idx = 1]]
    /\ UNCHANGED <<snaps, cfgCell, lbCell, rr, backends, activeConns, rl, mk,
                   rrHist, rrClean,
                   seqVars, protVars, supVars>>

\* healthy sweep: load_balancer.select_backend(), the cooldown test and the
\* resolution of the backend's address
SweepSelect(h) ==
    /\ hs[h].pc = "sweep1"
    /\ \E resolved \in BOOLEAN :
       LET lb == hs[h].lb
           healthy == healthy_backends(lb)
       IN  IF healthy = <<>>
           THEN /\ rr' = rr
                /\ hs' = [hs EXCEPT ![h] = [@ EXCEPT !.pc = "sweep2", !.left = 0,
                                                     !.idx = 1]]
           ELSE LET sel == select_round_robin(healthy, rr[lb])
                IN  /\ rr' = [rr EXCEPT ![lb] = FetchAddCursor(rr[lb], PoolLen(lb))]
                    /\ hs' = [hs EXCEPT ![h] =
                                IF is_in_cooldown(backends[lb][sel]) \/ ~resolved
                                THEN AfterAttempt(@)
                                ELSE [@ EXCEPT !.pc = "conn1", !.be = <<lb, sel>>]]
    /\ UNCHANGED <<snaps, cfgCell, lbCell, backends, activeConns, rl, mk,
                   rrHist, rrClean,
                   seqVars, protVars, supVars>>

\* healthy sweep: the connect to the selected backend succeeds, the stream is
\* returned and track_backend_connection builds the ConnectionGuard
SweepConnectOk(h) ==
    /\ hs[h].pc = "conn1"
    /\ Backend(hs[h].be).cs < MaxCount
    /\ backends' = SetBackend(hs[h].be, increment_connections(
           mark_connect_success(Backend(hs[h].be), snaps[hs[h].cfg].succT)))
    /\ hs' = [hs EXCEPT ![h] = [@ EXCEPT !.pc = "relay", !.left = 0, !.cfg = 0,
                                         !.lb = 0, !.pool = 0]]
    /\ UNCHANGED <<snaps, cfgCell, lbCell, rr, activeConns, rl, mk, rrHist, rrClean,
                   seqVars, protVars, supVars>>

\* healthy sweep: the connect fails or times out
SweepConnectFail(h) ==
    /\ hs[h].pc = "conn1"
    /\ Backend(hs[h].be).cf < MaxCount
    /\ backends' = SetBackend(hs[h].be,
           mark_connect_failure(Backend(hs[h].be), snaps[hs[h].cfg].failT,
                                snaps[hs[h].cfg].cooldown))
    /\ hs' = [hs EXCEPT ![h] = AfterAttempt(@)]
    /\ UNCHANGED <<snaps, cfgCell, lbCell, rr, activeConns, rl, mk, rrHist, rrClean,
                   seqVars, protVars, supVars>>

\* full sweep: the backend at idx is skipped (no address, or in cooldown)
FullSkip(h) ==
    /\ hs[h].pc = "sweep2"
    /\ hs[h].idx <= PoolLen(hs[h].pool)
    /\ hs' = [hs EXCEPT ![h] = [@ EXCEPT !.idx = @ + 1]]
    /\ UNCHANGED <<snaps, cfgCell, lbCell, rr, backends, activeConns, rl, mk,
                   rrHist, rrClean,
                   seqVars, protVars, supVars>>

\* full sweep: the connect to the backend at idx succeeds (and the guard)
FullConnectOk(h) ==
    /\ hs[h].pc = "sweep2"
    /\ hs[h].idx <= PoolLen(hs[h].pool)
    /\ LET be == <<hs[h].pool, hs[h].idx>>
       IN  /\ ~is_in_cooldown(Backend(be))
           /\ Backend(be).cs < MaxCount
           /\ backends' = SetBackend(be, increment_connections(
                  mark_connect_success(Backend(be), snaps[hs[h].cfg].succT)))
           /\ hs' = [hs EXCEPT ![h] = [@ EXCEPT !.pc = "relay", !.idx = 0,
                                                !.be = be, !.cfg = 0, !.lb = 0,
                                                !.pool = 0]]
    /\ UNCHANGED <<snaps, cfgCell, lbCell, rr, activeConns, rl, mk, rrHist, rrClean,
                   seqVars, protVars, supVars>>

\* full sweep: the connect to the backend at idx fails or times out
FullConnectFail(h) ==
    /\ hs[h].pc = "sweep2"
    /\ hs[h].idx <= PoolLen(hs[h].pool)
    /\ LET be == <<hs[h].pool, hs[h].idx>>
       IN  /\ ~is_in_cooldown(Backend(be))
           /\ Backend(be).cf < MaxCount
           /\ backends' = SetBackend(be,
                  mark_connect_failure(Backend(be), snaps[hs[h].cfg].failT,
                                       snaps[hs[h].cfg].cooldown))
           /\ hs' = [hs EXCEPT ![h] = [@ EXCEPT !.idx = @ + 1]]
    /\ UNCHANGED <<snaps, cfgCell, lbCell, rr, activeConns, rl, mk, rrHist, rrClean,
                   seqVars, protVars, supVars>>

\* both sweeps failed (or the pool is empty): connect_with_retry returns the
\* error and handle_connection releases the slot and returns it
FailRelease_NoRelease(h) ==
    /\ \/ hs[h].pc = "fail"
       \/ hs[h].pc = "sweep2" /\ hs[h].idx > PoolLen(hs[h].pool)
    /\ hs' = [hs EXCEPT ![h] = [@ EXCEPT !.pc = "idle", !.idx = 0,
                                         !.cfg = 0, !.lb = 0, !.pool = 0]]
    /\ UNCHANGED <<snaps, cfgCell, lbCell, rr, backends, activeConns, rl, mk,
                   rrHist, rrClean,
                   seqVars, protVars, supVars>>

FailRelease(h) ==
    /\ \/ hs[h].pc = "fail"
       \/ hs[h].pc = "sweep2" /\ hs[h].idx > PoolLen(hs[h].pool)
    /\ activeConns' = release_connection(activeConns)
    /\ hs' = [hs EXCEPT ![h] = [@ EXCEPT !.pc = "idle", !.rel = @ + 1, !.idx = 0,
                                         !.cfg = 0, !.lb = 0, !.pool = 0]]
    /\ UNCHANGED <<snaps, cfgCell, lbCell, rr, backends, rl, mk, rrHist, rrClean,
                   seqVars, protVars, supVars>>

Release_Failover(h) ==
    /\ hs[h].pc = "relay"
    /\ \E p \in 1..PoolLen(cfgCell) :
          hs' = [hs EXCEPT ![h] = [@ EXCEPT !.be = <<cfgCell, p>>]]
    /\ UNCHANGED <<snaps, cfgCell, lbCell, rr, backends, activeConns, rl, mk,
                   rrHist, rrClean,
                   seqVars, protVars, supVars>>

\* relay_streams returns (EOF, an I/O error or the idle timeout) and
\* handle_connection releases the slot
Release(h) ==
    /\ hs[h].pc = "relay"
    /\ activeConns' = release_connection(activeConns)
    /\ hs' = [hs EXCEPT ![h] = [@ EXCEPT !.pc = "drop", !.rel = @ + 1]]
    /\ UNCHANGED <<snaps, cfgCell, lbCell, rr, backends, rl, mk, rrHist, rrClean,
                   seqVars, protVars, supVars>>

\* handle_connection returns Ok: the ConnectionGuard is dropped, the task ends
DropGuard(h) ==
    /\ hs[h].pc = "drop"
    /\ backends' = SetBackend(hs[h].be, decrement_connections(Backend(hs[h].be)))
    /\ hs' = [hs EXCEPT ![h] = [@ EXCEPT !.pc = "idle", !.be = NoBackend]]
    /\ UNCHANGED <<snaps, cfgCell, lbCell, rr, activeConns, rl, mk, rrHist, rrClean,
                   seqVars, protVars, supVars>>

\* ------------------------------------------------------------------ reload

IdleReload == [pc |-> "idle", before |-> <<0, 0>>, why |-> "none"]

\* why validate_and_load turns a candidate down, "none" if it does not
Rejection(readable, c, reach) ==
    IF ~readable THEN "unreadable"
    ELSE IF ~validate(c) THEN "invalid"
    ELSE IF reach = {} THEN "unreachable"
    ELSE "none"

\* reload_config is called by the supervisor's main loop, one call at a time;
\* before remembers what was installed when the call started
ReloadStart ==
    /\ rl.pc = "idle"
    /\ Len(snaps) < MaxSnaps
    /\ rl' = [pc |-> "validate", before |-> <<cfgCell, lbCell>>, why |-> "none"]
    /\ UNCHANGED <<snaps, cfgCell, lbCell, rr, backends, activeConns, hs, mk,
                   rrHist, rrClean,
                   seqVars, protVars, supVars>>

\* validate_reload_candidate: on Ok the RuntimeConfig (with a fresh pool) is
\* built, on Err reload_config returns the error
ReloadValidate ==
    /\ rl.pc = "validate"
    /\ \E readable \in BOOLEAN, c \in Candidates :
       \E reach \in SUBSET (1..Len(c.pool)) :
          IF ValidateAndLoadOk(readable, c, reach)
          THEN /\ snaps' = Append(snaps, c)
               /\ backends' = Append(backends, NewPool(c))
               /\ rr' = Append(rr, 0)
               /\ rl' = [rl EXCEPT !.pc = "store_cfg",
                                   !.why = Rejection(readable, c, reach)]
          ELSE /\ rl' = [rl EXCEPT !.pc = "failed",
                                   !.why = Rejection(readable, c, reach)]
               /\ UNCHANGED <<snaps, backends, rr>>
    /\ UNCHANGED <<cfgCell, lbCell, activeConns, hs, mk, rrHist, rrClean,
                   seqVars, protVars, supVars>>

\* swap_config: self.config.store(new_config)
SwapStoreConfig ==
    /\ rl.pc = "store_cfg"
    /\ cfgCell' = Len(snaps)
    /\ rl' = [rl EXCEPT !.pc = "store_lb"]
    /\ UNCHANGED <<snaps, lbCell, rr, backends, activeConns, hs, mk, rrHist, rrClean,
                   seqVars, protVars, supVars>>

SwapStoreLb_Skipped ==
    /\ rl.pc = "store_lb"
    /\ rl' = IdleReload
    /\ UNCHANGED <<snaps, cfgCell, lbCell, rr, backends, activeConns, hs, mk,
                   rrHist, rrClean,
                   seqVars, protVars, supVars>>

\* swap_config: self.load_balancer.store(new_lb); reload_config returns Ok
SwapStoreLb ==
    /\ rl.pc = "store_lb"
    /\ lbCell' = Len(snaps)
    /\ rl' = IdleReload
    /\ UNCHANGED <<snaps, cfgCell, rr, backends, activeConns, hs, mk, rrHist, rrClean,
                   seqVars, protVars, supVars>>

\* reload_config returns the Err of a rejection and the supervisor goes back
\* to its main loop
ReloadReturn ==
    /\ rl.pc = "failed"
    /\ rl' = IdleReload
    /\ UNCHANGED <<snaps, cfgCell, lbCell, rr, backends, activeConns, hs, mk,
                   rrHist, rrClean,
                   seqVars, protVars, supVars>>

\* ---------------------------------------------------------- health checker

\* one probe of check_all_backends on a backend of the installed pool
ProbeOk(p) ==
    /\ p \in 1..PoolLen(cfgCell)
    /\ backends[cfgCell][p].cs < MaxCount
    /\ backends' = SetBackend(<<cfgCell, p>>,
           mark_success(backends[cfgCell][p], snaps[cfgCell].succT))
    /\ UNCHANGED <<snaps, cfgCell, lbCell, rr, activeConns, hs, rl, mk, rrHist, rrClean,
                   seqVars, protVars, supVars>>

ProbeFail(p) ==
    /\ p \in 1..PoolLen(cfgCell)
    /\ backends[cfgCell][p].cf < MaxCount
    /\ backends' = SetBackend(<<cfgCell, p>>,
           mark_failure(backends[cfgCell][p], snaps[cfgCell].failT))
    /\ UNCHANGED <<snaps, cfgCell, lbCell, rr, activeConns, hs, rl, mk, rrHist, rrClean,
                   seqVars, protVars, supVars>>

\* ---------------------------------------------------------- ProtectionMode

REASON_NONE == 0
REASON_TIMEOUT_REFUSED_STORM == 1
REASON_ALL_BACKENDS_UNAVAILABLE == 2

BackendErrorKind == {"Timeout", "ConnectionRefused", "Other"}

\* the kinds record_failure counts in its window
StormKinds == {"Timeout", "ConnectionRefused"}

\* ProtectionMode::new
NewProtectionMode(threshold, window_ms, stable_recoveries_required, now) ==
    [enabled |-> FALSE, wcount |-> 0, wstart |-> now, stable |-> 0,
     reason |-> REASON_NONE, threshold |-> threshold, window_ms |-> window_ms,
     required |-> stable_recoveries_required]

\* u64::saturating_sub
saturating_sub(a, b) == IF a > b THEN a - b ELSE 0

SwapEnabled_AlwaysTrue(p) == [p |-> [p EXCEPT !.enabled = TRUE], ret |-> TRUE]

\* !self.enabled.swap(true): the result is the negation of the value found
SwapEnabled(p) == [p |-> [p EXCEPT !.enabled = TRUE], ret |-> ~p.enabled]

\* enable: the reason is stored, then enabled is swapped to true
enable(p, reason_code) == SwapEnabled([p EXCEPT !.reason = reason_code])

disable(p, now) ==
    [p EXCEPT !.enabled = FALSE, !.reason = REASON_NONE, !.wcount = 0,
              !.wstart = now, !.stable = 0]

AdvanceWindow_KeepCount(p, now) ==
    IF saturating_sub(now, p.wstart) > p.window_ms
    THEN [p EXCEPT !.wstart = now]
    ELSE p

\* the window test and reset of record_failure
AdvanceWindow(p, now) ==
    IF saturating_sub(now, p.wstart) > p.window_ms
    THEN [p EXCEPT !.wstart = now, !.wcount = 0]
    ELSE p

\* The io::Error of a failed connect as classify_connect_error reads it: its
\* ErrorKind and its raw_os_error, 0 standing for None.
ConnectErrors ==
    [kind : {"TimedOut", "ConnectionRefused", "ConnectionReset"},
     raw : {0, 61, 104, 111}]

\* classify_connect_error
classify_connect_error(err) ==
    IF err.kind = "TimedOut" THEN "Timeout"
    ELSE IF err.kind = "ConnectionRefused" THEN "ConnectionRefused"
    ELSE IF err.raw \in {61, 111} THEN "ConnectionRefused"
    ELSE "Other"

record_failure_OtherCounts(p, kind, now) ==
    LET p1 == AdvanceWindow(p, now)
        storm_count == p1.wcount + 1
        p2 == [p1 EXCEPT !.wcount = storm_count, !.stable = 0]
    IN  IF storm_count >= p.threshold
        THEN enable(p2, REASON_TIMEOUT_REFUSED_STORM)
        ELSE [p |-> p2, ret |-> FALSE]

record_failure_OtherIgnored(p, kind, now) ==
    IF kind \in StormKinds
    THEN LET p1 == AdvanceWindow(p, now)
             storm_count == p1.wcount + 1
             p2 == [p1 EXCEPT !.wcount = storm_count, !.stable = 0]
         IN  IF storm_count >= p.threshold
             THEN enable(p2, REASON_TIMEOUT_REFUSED_STORM)
             ELSE [p |-> p2, ret |-> FALSE]
    ELSE [p |-> p, ret |-> FALSE]

record_failure(p, kind, now) ==
    IF kind \in StormKinds
    THEN LET p1 == AdvanceWindow(p, now)
             storm_count == p1.wcount + 1
             p2 == [p1 EXCEPT !.wcount = storm_count, !.stable = 0]
         IN  IF storm_count >= p.threshold
             THEN enable(p2, REASON_TIMEOUT_REFUSED_STORM)
             ELSE [p |-> p2, ret |-> FALSE]
    ELSE [p |-> [p EXCEPT !.stable = 0], ret |-> FALSE]

record_global_unavailable_KeepStable(p) ==
    enable(p, REASON_ALL_BACKENDS_UNAVAILABLE)

record_global_unavailable(p) ==
    enable([p EXCEPT !.stable = 0], REASON_ALL_BACKENDS_UNAVAILABLE)

record_success_NoGuard(p, now) ==
    LET stable == p.stable + 1
        p1 == [p EXCEPT !.stable = stable]
    IN  IF stable >= p.required
        THEN [p |-> disable(p1, now), ret |-> TRUE]
        ELSE [p |-> p1, ret |-> FALSE]

record_success(p, now) ==
    IF ~p.enabled
    THEN [p |-> p, ret |-> FALSE]
    ELSE LET stable == p.stable + 1
             p1 == [p EXCEPT !.stable = stable]
         IN  IF stable >= p.required
             THEN [p |-> disable(p1, now), ret |-> TRUE]
             ELSE [p |-> p1, ret |-> FALSE]

\* callers of the ProtectionMode (proxy handlers on the runtime's threads)
Callers == 1..NumCallers

\* A call: its position, operation, failure kind and result; its locals now,
\* val (storm_count or stable) and code (the reason to store); en0, whether
\* protection was enabled when it started, and dis, whether protection was
\* disabled since then.
IdleCall ==
    [pc |-> "idle", op |-> "none", kind |-> "none", ret |-> FALSE, now |-> 0,
     val |-> 0, code |-> REASON_NONE, en0 |-> FALSE, dis |-> FALSE]

Returned(op, kind, ret) ==
    [IdleCall EXCEPT !.pc = "returned", !.op = op, !.kind = kind, !.ret = ret]

\* The window as the calls define it: start, when the current window began;
\* count, the Timeout / ConnectionRefused failures recorded since; streak, the
\* successes recorded while enabled since the last failure of any kind.
NewWindow(now) == [start |-> now, count |-> 0, streak |-> 0]

\* the quiescent values of the variables a specification does not use
NoneSeen == [by |-> "none", kind |-> "none", tick |-> 0]

SeqUnused == calls = <<>> /\ seen = NoneSeen

ProtUnused ==
    /\ prot = NewProtectionMode(1, 1, 1, 0)
    /\ pr = [c \in Callers |-> IdleCall]
    /\ clock = 0
    /\ win = NewWindow(0)
    /\ flips = 0

\* run_daemon before its first step: no task spawned, no signal pending, the
\* reload channel empty; reloads counts the reload_config calls of the main
\* loop, last is how the latest ended, why is the signal that ended the loop,
\* sent is whether the shutdown was broadcast, exit is how the process ended;
\* listen is the port the accept loop's listener is bound to (0: none),
\* rounds counts the rounds of probes the health checker started, end is how
\* graceful_shutdown's wait ended
NewSupervisor ==
    [pc |-> "pidfile", proxy |-> "unspawned", health |-> "unspawned",
     term |-> FALSE, int |-> FALSE, hup |-> FALSE, reloadq |-> 0,
     reloads |-> 0, last |-> "none", why |-> "none", sent |-> FALSE,
     exit |-> "none", listen |-> 0, rounds |-> 0, end |-> "none"]

\* HealthChecker::run before its first step.  The ticker's ticks are due at
\* its creation and then every interval: elapsed is the number of whole
\* intervals gone by since, next the index of the first tick not yet taken;
\* rounds counts the rounds of probes started, firstAt is the value of
\* elapsed when the first one started (-1: none yet), lastAt the index of
\* the tick that started the latest; sent is the shutdown broadcast.
NewChecker ==
    [pc |-> "first_tick", next |-> 0, elapsed |-> 0, rounds |-> 0,
     firstAt |-> -1, lastAt |-> -1, sent |-> FALSE]

SupUnused ==
    /\ sup = [NewSupervisor EXCEPT !.pc = "running", !.proxy = "listening",
                                   !.health = "running"]
    /\ hc = NewChecker

\* ------------------------------------------------ the proxy specification

\* the configurations the daemon may boot with
BootConfigs ==
    { [max |-> m, pool |-> <<"A", "B">>, failT |-> 2, succT |-> 1,
       cooldown |-> 0] : m \in 1..2 }

IdleMarker == [pc |-> "idle", op |-> "none", val |-> 0]

Init ==
    /\ \E c \in BootConfigs : snaps = <<c>> /\ backends = <<NewPool(c)>>
    /\ cfgCell = 1
    /\ lbCell = 1
    /\ rr = <<0>>
    /\ activeConns = 0
    /\ hs = [h \in Handlers |-> IdleHandler]
    /\ rl = IdleReload
    /\ mk = [m \in Markers |-> IdleMarker]
    /\ rrHist = <<>>
    /\ rrClean = TRUE
    /\ SeqUnused
    /\ ProtUnused
    /\ SupUnused

HandlerStep(h) ==
    \/ Accept(h)
    \/ Admit(h)
    \/ CwrLoadConfig(h)
    \/ CwrLoadBalancer(h)
    \/ CwrLoadPool(h)
    \/ SweepSelect(h)
    \/ SweepConnectOk(h)
    \/ SweepConnectFail(h)
    \/ FullSkip(h)
    \/ FullConnectOk(h)
    \/ FullConnectFail(h)
    \/ FailRelease(h)
    \/ Release(h)
    \/ DropGuard(h)

Next ==
    \/ \E h \in Handlers : HandlerStep(h)
    \/ ReloadStart
    \/ ReloadValidate
    \/ SwapStoreConfig
    \/ SwapStoreLb
    \/ ReloadReturn
    \/ \E p \in 1..MaxPool : ProbeOk(p)
    \/ \E p \in 1..MaxPool : ProbeFail(p)

Spec == Init /\ [][Next]_vars

\* --------------------------------- concurrent mark_failure / mark_success

\* The calls that health probes and proxy handlers issue on one backend,
\* <<1, 1>>, one atomic operation per step.  A call starts with its
\* fetch_add and keeps the value it read.
TheBackend == <<1, 1>>

MarkFailureStart(m) ==
    /\ mk[m].pc = "idle"
    /\ Backend(TheBackend).cf < MaxCount
    /\ backends' = SetBackend(TheBackend, MarkFailureAdd(Backend(TheBackend)))
    /\ mk' = [mk EXCEPT ![m] = [pc |-> "reset", op |-> "failure",
                                val |-> Backend(TheBackend).cf + 1]]
    /\ UNCHANGED <<snaps, cfgCell, lbCell, rr, activeConns, hs, rl, rrHist, rrClean,
                   seqVars, protVars, supVars>>

MarkSuccessStart(m) ==
    /\ mk[m].pc = "idle"
    /\ Backend(TheBackend).cs < MaxCount
    /\ backends' = SetBackend(TheBackend, MarkSuccessAdd(Backend(TheBackend)))
    /\ mk' = [mk EXCEPT ![m] = [pc |-> "reset", op |-> "success",
                                val |-> Backend(TheBackend).cs + 1]]
    /\ UNCHANGED <<snaps, cfgCell, lbCell, rr, activeConns, hs, rl, rrHist, rrClean,
                   seqVars, protVars, supVars>>

\* the store of 0 to the other counter
MarkReset(m) ==
    /\ mk[m].pc = "reset"
    /\ backends' = SetBackend(TheBackend,
           IF mk[m].op = "failure" THEN MarkFailureReset(Backend(TheBackend))
           ELSE MarkSuccessReset(Backend(TheBackend)))
    /\ mk' = [mk EXCEPT ![m] = [@ EXCEPT !.pc = "flag"]]
    /\ UNCHANGED <<snaps, cfgCell, lbCell, rr, activeConns, hs, rl, rrHist, rrClean,
                   seqVars, protVars, supVars>>

\* the threshold test and the update of the health flag; the call returns
MarkFlag(m) ==
    /\ mk[m].pc = "flag"
    /\ backends' = SetBackend(TheBackend,
           IF mk[m].op = "failure"
           THEN MarkFailureFlag(Backend(TheBackend), mk[m].val, snaps[1].failT)
           ELSE MarkSuccessFlag(Backend(TheBackend), mk[m].val, snaps[1].succT))
    /\ mk' = [mk EXCEPT ![m] = IdleMarker]
    /\ UNCHANGED <<snaps, cfgCell, lbCell, rr, activeConns, hs, rl, rrHist, rrClean,
                   seqVars, protVars, supVars>>

InitHealth ==
    /\ \E f \in 1..MaxCount, t \in 1..MaxCount :
          snaps = <<[max |-> 1, pool |-> <<"A">>, failT |-> f, succT |-> t,
                     cooldown |-> 0]>>
    /\ backends = <<<<NewBackendState>>>>
    /\ cfgCell = 1
    /\ lbCell = 1
    /\ rr = <<0>>
    /\ activeConns = 0
    /\ hs = [h \in Handlers |-> IdleHandler]
    /\ rl = IdleReload
    /\ mk = [m \in Markers |-> IdleMarker]
    /\ rrHist = <<>>
    /\ rrClean = TRUE
    /\ SeqUnused
    /\ ProtUnused
    /\ SupUnused

NextHealth ==
    \/ \E m \in Markers : MarkFailureStart(m)
    \/ \E m \in Markers : MarkSuccessStart(m)
    \/ \E m \in Markers : MarkReset(m)
    \/ \E m \in Markers : MarkFlag(m)

SpecHealth == InitHealth /\ [][NextHealth]_vars

\* ------------------------------------------- sequential round-robin selection

AddrSeq == <<"A", "B", "C", "D", "E">>

AllHealthy(bs) == \A p \in 1..Len(bs) : bs[p].healthy

\* LoadBalancer::select_backend, called by one caller at a time.  The
\* returned addresses are recorded as long as every backend has been healthy.
RRSelect ==
    /\ Len(rrHist) < MaxSelections
    /\ LET healthy == healthy_backends(1)
       IN  IF healthy = <<>>
           THEN UNCHANGED <<rr, rrHist>>
           ELSE LET sel == select_round_robin(healthy, rr[1])
                IN  /\ rr' = [rr EXCEPT ![1] = FetchAddCursor(rr[1], PoolLen(1))]
                    /\ rrHist' = IF rrClean THEN Append(rrHist, snaps[1].pool[sel])
                                 ELSE rrHist
    /\ UNCHANGED <<snaps, cfgCell, lbCell, backends, activeConns, hs, rl, mk, rrClean,
                   seqVars, protVars, supVars>>

\* a health probe of backend p fails / succeeds between two selections
RRProbeFail(p) ==
    /\ p \in 1..PoolLen(1)
    /\ backends[1][p].cf < MaxCount
    /\ backends' = SetBackend(<<1, p>>, mark_failure(backends[1][p], snaps[1].failT))
    /\ rrClean' = (rrClean /\ AllHealthy(backends'[1]))
    /\ UNCHANGED <<snaps, cfgCell, lbCell, rr, activeConns, hs, rl, mk, rrHist,
                   seqVars, protVars, supVars>>

RRProbeOk(p) ==
    /\ p \in 1..PoolLen(1)
    /\ backends[1][p].cs < MaxCount
    /\ backends' = SetBackend(<<1, p>>, mark_success(backends[1][p], snaps[1].succT))
    /\ UNCHANGED <<snaps, cfgCell, lbCell, rr, activeConns, hs, rl, mk, rrHist, rrClean,
                   seqVars, protVars, supVars>>

InitRR ==
    /\ \E n \in 1..MaxPool :
          LET c == [max |-> 1, pool |-> SubSeq(AddrSeq, 1, n), failT |-> 1,
                    succT |-> 1, cooldown |-> 0]
          IN  snaps = <<c>> /\ backends = <<NewPool(c)>>
    /\ cfgCell = 1
    /\ lbCell = 1
    /\ rr = <<0>>
    /\ activeConns = 0
    /\ hs = [h \in Handlers |-> IdleHandler]
    /\ rl = IdleReload
    /\ mk = [m \in Markers |-> IdleMarker]
    /\ rrHist = <<>>
    /\ rrClean = TRUE
    /\ SeqUnused
    /\ ProtUnused
    /\ SupUnused

NextRR ==
    \/ RRSelect
    \/ \E p \in 1..MaxPool : RRProbeFail(p)
    \/ \E p \in 1..MaxPool : RRProbeOk(p)

SpecRR == InitRR /\ [][NextRR]_vars

\* ------------------------------- sequential mark_failure / mark_success

\* One caller at a time calls mark_failure or mark_success on the backend
\* <<1, 1>> with the thresholds of the configuration; calls records them.
SeqMarkFailure ==
    /\ Len(calls) < MaxCalls
    /\ backends' = SetBackend(TheBackend,
           mark_failure(Backend(TheBackend), snaps[1].failT))
    /\ calls' = Append(calls, "F")
    /\ UNCHANGED <<seen, snaps, cfgCell, lbCell, rr, activeConns, hs, rl, mk, rrHist,
                   rrClean, protVars, supVars>>

SeqMarkSuccess ==
    /\ Len(calls) < MaxCalls
    /\ backends' = SetBackend(TheBackend,
           mark_success(Backend(TheBackend), snaps[1].succT))
    /\ calls' = Append(calls, "S")
    /\ UNCHANGED <<seen, snaps, cfgCell, lbCell, rr, activeConns, hs, rl, mk, rrHist,
                   rrClean, protVars, supVars>>

InitSeq ==
    /\ \E f \in 1..MaxThreshold, t \in 1..MaxThreshold :
          snaps = <<[max |-> 1, pool |-> <<"A">>, failT |-> f, succT |-> t,
                     cooldown |-> 0]>>
    /\ backends = <<<<NewBackendState>>>>
    /\ cfgCell = 1
    /\ lbCell = 1
    /\ rr = <<0>>
    /\ activeConns = 0
    /\ hs = [h \in Handlers |-> IdleHandler]
    /\ rl = IdleReload
    /\ mk = [m \in Markers |-> IdleMarker]
    /\ rrHist = <<>>
    /\ rrClean = TRUE
    /\ SeqUnused
    /\ ProtUnused
    /\ SupUnused

NextSeq == SeqMarkFailure \/ SeqMarkSuccess

SpecSeq == InitSeq /\ [][NextSeq]_vars

\* ------------------------- concurrent increment / decrement_connections

\* Callers on the runtime's threads call increment_connections and
\* decrement_connections on the backend <<1, 1>>, one atomic operation per
\* step.  calls records each call where its read-modify-write takes effect:
\* "I" an increment, "D" a decrement of a counted connection, "Z" a decrement
\* made while no connection is counted.
Counted(cs) ==
    Cardinality({k \in 1..Len(cs) : cs[k] = "I"})
      - Cardinality({k \in 1..Len(cs) : cs[k] = "D"})

\* AtomicUsize::fetch_add / fetch_sub wrap around
WrappingAdd(a, d) == (a + d) % (usize_MAX + 1)

\* increment_connections: one fetch_add
IncFetchAdd(m) ==
    /\ mk[m].pc = "idle"
    /\ Len(calls) < MaxCalls
    /\ Counted(calls) < NumMarkers
    /\ backends' = SetBackend(TheBackend,
           [Backend(TheBackend) EXCEPT !.active = WrappingAdd(@, 1)])
    /\ calls' = Append(calls, "I")
    /\ UNCHANGED <<mk, seen, snaps, cfgCell, lbCell, rr, activeConns, hs, rl,
                   rrHist, rrClean, protVars, supVars>>

\* decrement_connections: the fetch_sub; the call returns unless prev == 0
DecFetchSub(m) ==
    /\ mk[m].pc = "idle"
    /\ Len(calls) < MaxCalls
    /\ backends' = SetBackend(TheBackend,
           [Backend(TheBackend) EXCEPT !.active = WrappingAdd(@, -1)])
    /\ mk' = [mk EXCEPT ![m] =
                IF Backend(TheBackend).active = 0
                THEN [pc |-> "store", op |-> "decrement", val |-> 0]
                ELSE IdleMarker]
    /\ calls' = Append(calls, IF Counted(calls) = 0 THEN "Z" ELSE "D")
    /\ UNCHANGED <<seen, snaps, cfgCell, lbCell, rr, activeConns, hs, rl, rrHist,
                   rrClean, protVars, supVars>>

\* decrement_connections: the store of 0 after prev == 0
DecStore(m) ==
    /\ mk[m].pc = "store"
    /\ backends' = SetBackend(TheBackend,
           [Backend(TheBackend) EXCEPT !.active = 0])
    /\ mk' = [mk EXCEPT ![m] = IdleMarker]
    /\ UNCHANGED <<seqVars, snaps, cfgCell, lbCell, rr, activeConns, hs, rl,
                   rrHist, rrClean, protVars, supVars>>

InitDec ==
    /\ snaps = <<[max |-> 1, pool |-> <<"A">>, failT |-> 1, succT |-> 1,
                  cooldown |-> 0]>>
    /\ backends = <<<<NewBackendState>>>>
    /\ cfgCell = 1
    /\ lbCell = 1
    /\ rr = <<0>>
    /\ activeConns = 0
    /\ hs = [h \in Handlers |-> IdleHandler]
    /\ rl = IdleReload
    /\ mk = [m \in Markers |-> IdleMarker]
    /\ rrHist = <<>>
    /\ rrClean = TRUE
    /\ SeqUnused
    /\ ProtUnused
    /\ SupUnused

NextDec ==
    \/ \E m \in Markers : IncFetchAdd(m)
    \/ \E m \in Markers : DecFetchSub(m)
    \/ \E m \in Markers : DecStore(m)

SpecDec == InitDec /\ [][NextDec]_vars

\* ------------------------------------- ProtectionMode, one call at a time

\* Caller 1 makes the calls, each one whole before the next starts; the
\* call's operation, kind and result stay visible until it returns.
SeqRecordFailure(kind) ==
    /\ pr[1].pc = "idle"
    /\ kind = "Other" \/ prot.wcount < MaxWindowCount
    /\ LET r == record_failure(prot, kind, clock)
       IN  /\ prot' = r.p
           /\ pr' = [pr EXCEPT ![1] = Returned("record_failure", kind, r.ret)]
    /\ win' = IF kind = "Other" THEN [win EXCEPT !.streak = 0]
              ELSE IF clock - win.start > prot.window_ms
              THEN [start |-> clock, count |-> 1, streak |-> 0]
              ELSE [win EXCEPT !.count = @ + 1, !.streak = 0]
    /\ UNCHANGED <<snaps, cfgCell, lbCell, rr, backends, activeConns, hs, rl, mk,
                   rrHist, rrClean, clock, flips, seqVars, supVars>>

SeqRecordGlobalUnavailable ==
    /\ pr[1].pc = "idle"
    /\ LET r == record_global_unavailable(prot)
       IN  /\ prot' = r.p
           /\ pr' = [pr EXCEPT ![1] =
                       Returned("record_global_unavailable", "none", r.ret)]
    /\ win' = [win EXCEPT !.streak = 0]
    /\ UNCHANGED <<snaps, cfgCell, lbCell, rr, backends, activeConns, hs, rl, mk,
                   rrHist, rrClean, clock, flips, seqVars, supVars>>

SeqRecordSuccess ==
    /\ pr[1].pc = "idle"
    /\ LET r == record_success(prot, clock)
       IN  /\ prot' = r.p
           /\ pr' = [pr EXCEPT ![1] = Returned("record_success", "none", r.ret)]
           /\ win' = IF ~prot.enabled THEN win
                     ELSE IF r.p.enabled THEN [win EXCEPT !.streak = @ + 1]
                     ELSE NewWindow(clock)
    /\ UNCHANGED <<snaps, cfgCell, lbCell, rr, backends, activeConns, hs, rl, mk,
                   rrHist, rrClean, clock, flips, seqVars, supVars>>

SeqReturn ==
    /\ pr[1].pc = "returned"
    /\ pr' = [pr EXCEPT ![1] = IdleCall]
    /\ UNCHANGED <<snaps, cfgCell, lbCell, rr, backends, activeConns, hs, rl, mk,
                   rrHist, rrClean, prot, clock, win, flips, seqVars, supVars>>

\* now_unix_ms reads the system clock, which moves on and may be set back
ClockChange ==
    /\ \E t \in 0..MaxClock : t # clock /\ clock' = t
    /\ UNCHANGED <<snaps, cfgCell, lbCell, rr, backends, activeConns, hs, rl, mk,
                   rrHist, rrClean, prot, pr, win, flips, seqVars, supVars>>

InitProt ==
    /\ snaps = <<[max |-> 1, pool |-> <<"A">>, failT |-> 1, succT |-> 1,
                  cooldown |-> 0]>>
    /\ backends = <<<<NewBackendState>>>>
    /\ cfgCell = 1
    /\ lbCell = 1
    /\ rr = <<0>>
    /\ activeConns = 0
    /\ hs = [h \in Handlers |-> IdleHandler]
    /\ rl = IdleReload
    /\ mk = [m \in Markers |-> IdleMarker]
    /\ rrHist = <<>>
    /\ rrClean = TRUE
    /\ \E t \in 1..MaxThreshold, w \in 1..MaxWindow, r \in 1..MaxThreshold :
          prot = NewProtectionMode(t, w, r, 0)
    /\ pr = [c \in Callers |-> IdleCall]
    /\ clock = 0
    /\ win = NewWindow(0)
    /\ flips = 0
    /\ SeqUnused
    /\ SupUnused

NextProt ==
    \/ \E err \in ConnectErrors : SeqRecordFailure(classify_connect_error(err))
    \/ SeqRecordGlobalUnavailable
    \/ SeqRecordSuccess
    \/ SeqReturn
    \/ ClockChange

SpecProt == InitProt /\ [][NextProt]_vars

\* --------------------------------------- ProtectionMode, concurrent calls

\* The callers run on the threads of the runtime: a call is a sequence of
\* atomic loads, stores and read-modify-writes, one per step.

\* the call of caller c returns ret; its locals are gone
Return(c, ret) ==
    [Returned(pr[c].op, pr[c].kind, ret) EXCEPT !.en0 = pr[c].en0,
                                                !.dis = pr[c].dis]

\* what the variables of the other specifications do in these steps
ConcRest ==
    UNCHANGED <<snaps, cfgCell, lbCell, rr, backends, activeConns, hs, rl, mk,
                rrHist, rrClean, win, seqVars, supVars>>

\* record_failure is entered; for Timeout / ConnectionRefused now is read
ConcStartFailure(c, kind) ==
    /\ pr[c].pc = "idle"
    /\ kind \in StormKinds => prot.wcount < ConcMaxWindowCount
    /\ pr' = [pr EXCEPT ![c] =
                [IdleCall EXCEPT !.pc = IF kind \in StormKinds THEN "rf_load"
                                        ELSE "rf_other",
                                 !.op = "record_failure", !.kind = kind,
                                 !.now = clock, !.en0 = prot.enabled]]
    /\ UNCHANGED <<prot, clock, flips>>
    /\ ConcRest

\* window_started_ms.load and the window test
RfLoad(c) ==
    /\ pr[c].pc = "rf_load"
    /\ pr' = [pr EXCEPT ![c].pc =
                IF saturating_sub(pr[c].now, prot.wstart) > prot.window_ms
                THEN "rf_reset_start" ELSE "rf_add"]
    /\ UNCHANGED <<prot, clock, flips>>
    /\ ConcRest

\* window_started_ms.store(now)
RfResetStart(c) ==
    /\ pr[c].pc = "rf_reset_start"
    /\ prot' = [prot EXCEPT !.wstart = pr[c].now]
    /\ pr' = [pr EXCEPT ![c].pc = "rf_reset_count"]
    /\ UNCHANGED <<clock, flips>>
    /\ ConcRest

\* timeout_refused_window_count.store(0)
RfResetCount(c) ==
    /\ pr[c].pc = "rf_reset_count"
    /\ prot' = [prot EXCEPT !.wcount = 0]
    /\ pr' = [pr EXCEPT ![c].pc = "rf_add"]
    /\ UNCHANGED <<clock, flips>>
    /\ ConcRest

\* storm_count = timeout_refused_window_count.fetch_add(1) + 1
RfAdd(c) ==
    /\ pr[c].pc = "rf_add"
    /\ prot' = [prot EXCEPT !.wcount = @ + 1]
    /\ pr' = [pr EXCEPT ![c].pc = "rf_stable", ![c].now = 0,
                        ![c].val = prot.wcount + 1]
    /\ UNCHANGED <<clock, flips>>
    /\ ConcRest

\* stable_success_count.store(0) and the threshold test
RfStable(c) ==
    /\ pr[c].pc = "rf_stable"
    /\ prot' = [prot EXCEPT !.stable = 0]
    /\ pr' = [pr EXCEPT ![c] =
                IF pr[c].val >= prot.threshold
                THEN [@ EXCEPT !.pc = "en_reason", !.val = 0,
                               !.code = REASON_TIMEOUT_REFUSED_STORM]
                ELSE Return(c, FALSE)]
    /\ UNCHANGED <<clock, flips>>
    /\ ConcRest

\* a failure of kind Other: stable_success_count.store(0), return false
RfOther(c) ==
    /\ pr[c].pc = "rf_other"
    /\ prot' = [prot EXCEPT !.stable = 0]
    /\ pr' = [pr EXCEPT ![c] = Return(c, FALSE)]
    /\ UNCHANGED <<clock, flips>>
    /\ ConcRest

ConcStartGlobalUnavailable(c) ==
    /\ pr[c].pc = "idle"
    /\ pr' = [pr EXCEPT ![c] =
                [IdleCall EXCEPT !.pc = "gu_stable",
                                 !.op = "record_global_unavailable",
                                 !.en0 = prot.enabled]]
    /\ UNCHANGED <<prot, clock, flips>>
    /\ ConcRest

\* record_global_unavailable: stable_success_count.store(0)
GuStable(c) ==
    /\ pr[c].pc = "gu_stable"
    /\ prot' = [prot EXCEPT !.stable = 0]
    /\ pr' = [pr EXCEPT ![c].pc = "en_reason",
                        ![c].code = REASON_ALL_BACKENDS_UNAVAILABLE]
    /\ UNCHANGED <<clock, flips>>
    /\ ConcRest

\* enable: reason_code.store(reason_code)
EnReason(c) ==
    /\ pr[c].pc = "en_reason"
    /\ prot' = [prot EXCEPT !.reason = pr[c].code]
    /\ pr' = [pr EXCEPT ![c].pc = "en_swap"]
    /\ UNCHANGED <<clock, flips>>
    /\ ConcRest

\* enable: !enabled.swap(true), the result of the call
EnSwap(c) ==
    /\ pr[c].pc = "en_swap"
    /\ LET r == SwapEnabled(prot)
       IN  /\ prot' = r.p
           /\ pr' = [pr EXCEPT ![c] = Return(c, r.ret)]
           /\ flips' = flips + (IF ~prot.enabled /\ r.p.enabled THEN 1 ELSE 0)
                             - (IF r.ret THEN 1 ELSE 0)
    /\ UNCHANGED clock
    /\ ConcRest

ConcStartSuccess(c) ==
    /\ pr[c].pc = "idle"
    /\ pr' = [pr EXCEPT ![c] =
                [IdleCall EXCEPT !.pc = "rs_load", !.op = "record_success",
                                 !.en0 = prot.enabled]]
    /\ UNCHANGED <<prot, clock, flips>>
    /\ ConcRest

\* record_success: enabled.load
RsLoad(c) ==
    /\ pr[c].pc = "rs_load"
    /\ pr' = [pr EXCEPT ![c] =
                IF ~prot.enabled
                THEN Return(c, FALSE)
                ELSE [@ EXCEPT !.pc = "rs_add"]]
    /\ UNCHANGED <<prot, clock, flips>>
    /\ ConcRest

\* stable = stable_success_count.fetch_add(1) + 1 and the threshold test
RsAdd(c) ==
    /\ pr[c].pc = "rs_add"
    /\ prot' = [prot EXCEPT !.stable = @ + 1]
    /\ pr' = [pr EXCEPT ![c] =
                IF prot.stable + 1 >= prot.required
                THEN [@ EXCEPT !.pc = "dis_enabled"]
                ELSE Return(c, FALSE)]
    /\ UNCHANGED <<clock, flips>>
    /\ ConcRest

\* disable: enabled.store(false); every call in progress has now seen
\* protection disabled since it started
DisEnabled(c) ==
    /\ pr[c].pc = "dis_enabled"
    /\ prot' = [prot EXCEPT !.enabled = FALSE]
    /\ pr' = [d \in Callers |->
                IF d = c THEN [pr[d] EXCEPT !.pc = "dis_reason", !.dis = TRUE]
                ELSE IF pr[d].pc \notin {"idle", "returned"}
                THEN [pr[d] EXCEPT !.dis = TRUE]
                ELSE pr[d]]
    /\ UNCHANGED <<clock, flips>>
    /\ ConcRest

\* disable: reason_code.store(REASON_NONE)
DisReason(c) ==
    /\ pr[c].pc = "dis_reason"
    /\ prot' = [prot EXCEPT !.reason = REASON_NONE]
    /\ pr' = [pr EXCEPT ![c].pc = "dis_count"]
    /\ UNCHANGED <<clock, flips>>
    /\ ConcRest

\* disable: timeout_refused_window_count.store(0)
DisCount(c) ==
    /\ pr[c].pc = "dis_count"
    /\ prot' = [prot EXCEPT !.wcount = 0]
    /\ pr' = [pr EXCEPT ![c].pc = "dis_start"]
    /\ UNCHANGED <<clock, flips>>
    /\ ConcRest

\* disable: window_started_ms.store(now_unix_ms())
DisStart(c) ==
    /\ pr[c].pc = "dis_start"
    /\ prot' = [prot EXCEPT !.wstart = clock]
    /\ pr' = [pr EXCEPT ![c].pc = "dis_stable"]
    /\ UNCHANGED <<clock, flips>>
    /\ ConcRest

\* disable: stable_success_count.store(0); record_success returns true
DisStable(c) ==
    /\ pr[c].pc = "dis_stable"
    /\ prot' = [prot EXCEPT !.stable = 0]
    /\ pr' = [pr EXCEPT ![c] = Return(c, TRUE)]
    /\ UNCHANGED <<clock, flips>>
    /\ ConcRest

ConcReturn(c) ==
    /\ pr[c].pc = "returned"
    /\ pr' = [pr EXCEPT ![c] = IdleCall]
    /\ UNCHANGED <<prot, clock, flips>>
    /\ ConcRest

CallerStep(c) ==
    \/ \E kind \in BackendErrorKind : ConcStartFailure(c, kind)
    \/ RfLoad(c)
    \/ RfResetStart(c)
    \/ RfResetCount(c)
    \/ RfAdd(c)
    \/ RfStable(c)
    \/ RfOther(c)
    \/ ConcStartGlobalUnavailable(c)
    \/ GuStable(c)
    \/ EnReason(c)
    \/ EnSwap(c)
    \/ ConcStartSuccess(c)
    \/ RsLoad(c)
    \/ RsAdd(c)
    \/ DisEnabled(c)
    \/ DisReason(c)
    \/ DisCount(c)
    \/ DisStart(c)
    \/ DisStable(c)
    \/ ConcReturn(c)

\* the clock moves on
ConcTick ==
    /\ clock < ConcMaxClock
    /\ clock' = clock + 1
    /\ UNCHANGED <<prot, pr, flips>>
    /\ ConcRest

InitProtConc ==
    /\ snaps = <<[max |-> 1, pool |-> <<"A">>, failT |-> 1, succT |-> 1,
                  cooldown |-> 0]>>
    /\ backends = <<<<NewBackendState>>>>
    /\ cfgCell = 1
    /\ lbCell = 1
    /\ rr = <<0>>
    /\ activeConns = 0
    /\ hs = [h \in Handlers |-> IdleHandler]
    /\ rl = IdleReload
    /\ mk = [m \in Markers |-> IdleMarker]
    /\ rrHist = <<>>
    /\ rrClean = TRUE
    /\ \E t \in 1..ConcMaxThreshold, r \in 1..ConcMaxThreshold :
          prot = NewProtectionMode(t, 1, r, 0)
    /\ pr = [c \in Callers |-> IdleCall]
    /\ clock = 0
    /\ win = NewWindow(0)
    /\ flips = 0
    /\ SeqUnused
    /\ SupUnused

NextProtConc ==
    \/ \E c \in Callers : CallerStep(c)
    \/ ConcTick

SpecProtConc == InitProtConc /\ [][NextProtConc]_vars

\* ---------------------------------------- ProtectionMode across reloads

\* The daemon boots with a configuration whose tuning names the parameters
\* of the ProtectionMode; the record_* calls of SpecProt are made one at a
\* time, and reloads install configurations whose tuning may name others.
ProtectionTunings == [pth : 1..2, pw : 1..2, pst : 1..2]

\* a configuration together with the protection parameters of its tuning
WithProtection(c, t) == t @@ c

\* AppState::new: the ProtectionMode is built from the tuning of the
\* configuration the daemon boots with
BootProtectionMode(c, now) == NewProtectionMode(c.pth, c.pw, c.pst, now)

swap_protection_Rebuild(p, c) == NewProtectionMode(c.pth, c.pw, c.pst, 0)

\* swap_config stores the configuration and the balancer; protection_mode
\* is not among the cells it writes
swap_protection(p, c) == p

\* reload_config: the file is read, validated and probed, then swap_config
RpReload ==
    /\ \E readable \in BOOLEAN, c \in Candidates, t \in ProtectionTunings :
       \E reach \in SUBSET (1..Len(c.pool)) :
          /\ ValidateAndLoadOk(readable, c, reach)
          /\ Len(snaps) < MaxSnaps
          /\ snaps' = Append(snaps, WithProtection(c, t))
          /\ backends' = Append(backends, NewPool(c))
          /\ rr' = Append(rr, 0)
          /\ cfgCell' = Len(snaps')
          /\ lbCell' = Len(snaps')
          /\ prot' = swap_protection(prot, WithProtection(c, t))
    /\ UNCHANGED <<activeConns, hs, rl, mk, rrHist, rrClean, pr, clock, win,
                   flips, seqVars, supVars>>

InitRp ==
    /\ \E t \in ProtectionTunings :
          /\ t.pw = 1
          /\ snaps = <<WithProtection([max |-> 1, pool |-> <<"A">>, failT |-> 1,
                                       succT |-> 1, cooldown |-> 0], t)>>
          /\ prot = BootProtectionMode(snaps[1], 0)
    /\ backends = <<<<NewBackendState>>>>
    /\ cfgCell = 1
    /\ lbCell = 1
    /\ rr = <<0>>
    /\ activeConns = 0
    /\ hs = [h \in Handlers |-> IdleHandler]
    /\ rl = IdleReload
    /\ mk = [m \in Markers |-> IdleMarker]
    /\ rrHist = <<>>
    /\ rrClean = TRUE
    /\ pr = [c \in Callers |-> IdleCall]
    /\ clock = 0
    /\ win = NewWindow(0)
    /\ flips = 0
    /\ SeqUnused
    /\ SupUnused

NextRp ==
    \/ \E err \in ConnectErrors : SeqRecordFailure(classify_connect_error(err))
    \/ SeqRecordGlobalUnavailable
    \/ SeqRecordSuccess
    \/ SeqReturn
    \/ ClockChange
    \/ RpReload

SpecRp == InitRp /\ [][NextRp]_vars

\* ----------------------------- connect results of the proxy and the probes

\* The proxy path and the health checker observe connect results on the
\* backend <<1, 1>>; seen records the observer and the kind of the latest
\* result ("Ok" for a connect that succeeded), tick tells two alike apart.
Observe(by, kind) == [by |-> by, kind |-> kind, tick |-> 1 - seen.tick]

FeedRest ==
    UNCHANGED <<snaps, cfgCell, lbCell, rr, activeConns, hs, rl, mk, rrHist,
                rrClean, calls, pr, clock, win, flips, supVars>>

\* connect_with_retry, Ok(Err(e)) with kind = classify_connect_error(&e) and
\* Err(_) with kind Timeout: mark_connect_failure, then record_failure
FeedProxyFail(kind) ==
    /\ Backend(TheBackend).cf < MaxCount
    /\ kind \in StormKinds => prot.wcount < MaxWindowCount
    /\ backends' = SetBackend(TheBackend,
           mark_connect_failure(Backend(TheBackend), snaps[1].failT,
                                snaps[1].cooldown))
    /\ prot' = record_failure(prot, kind, clock).p
    /\ seen' = Observe("proxy", kind)
    /\ FeedRest

\* connect_with_retry, Ok(Ok(stream)): mark_connect_success, record_success
FeedProxyOk ==
    /\ Backend(TheBackend).cs < MaxCount
    /\ backends' = SetBackend(TheBackend,
           mark_connect_success(Backend(TheBackend), snaps[1].succT))
    /\ prot' = record_success(prot, clock).p
    /\ seen' = Observe("proxy", "Ok")
    /\ FeedRest

\* check_all_backends, Ok(Err(e)) and Err(_): mark_failure
FeedProbeFail(kind) ==
    /\ Backend(TheBackend).cf < MaxCount
    /\ backends' = SetBackend(TheBackend,
           mark_failure(Backend(TheBackend), snaps[1].failT))
    /\ seen' = Observe("health", kind)
    /\ UNCHANGED prot
    /\ FeedRest

\* check_all_backends, Ok(Ok(_)): mark_success
FeedProbeOk ==
    /\ Backend(TheBackend).cs < MaxCount
    /\ backends' = SetBackend(TheBackend,
           mark_success(Backend(TheBackend), snaps[1].succT))
    /\ seen' = Observe("health", "Ok")
    /\ UNCHANGED prot
    /\ FeedRest

InitFeed ==
    /\ \E c \in BootConfigs : snaps = <<c>> /\ backends = <<NewPool(c)>>
    /\ cfgCell = 1
    /\ lbCell = 1
    /\ rr = <<0>>
    /\ activeConns = 0
    /\ hs = [h \in Handlers |-> IdleHandler]
    /\ rl = IdleReload
    /\ mk = [m \in Markers |-> IdleMarker]
    /\ rrHist = <<>>
    /\ rrClean = TRUE
    /\ \E t \in 1..MaxThreshold, r \in 1..MaxThreshold :
          prot = NewProtectionMode(t, 1, r, 0)
    /\ pr = [c \in Callers |-> IdleCall]
    /\ clock = 0
    /\ win = NewWindow(0)
    /\ flips = 0
    /\ SeqUnused
    /\ SupUnused

NextFeed ==
    \/ \E kind \in BackendErrorKind : FeedProxyFail(kind)
    \/ FeedProxyOk
    \/ \E kind \in BackendErrorKind : FeedProbeFail(kind)
    \/ FeedProbeOk
    \/ ClockChange

SpecFeed == InitFeed /\ [][NextFeed]_vars

\* ---------------------------------------------------------- the supervisor

SupRest ==
    UNCHANGED <<snaps, cfgCell, lbCell, rr, backends, activeConns, hs, rl, mk,
                rrHist, rrClean, seqVars, protVars, hc>>

SupKeepConfig == UNCHANGED <<snaps, cfgCell, lbCell, rr, backends>>

SupKeepTasks ==
    UNCHANGED <<activeConns, hs, rl, mk, rrHist, rrClean, seqVars, protVars, hc>>

\* a step of run_daemon that ends in ? : on Err run_daemon returns the error
\* and the process exits with it
BootStep(s, ok, next) ==
    IF ok THEN [s EXCEPT !.pc = next]
    ELSE [s EXCEPT !.pc = "exited", !.exit = "error"]

\* PidFileGuard::new()?
SupPidFile ==
    /\ sup.pc = "pidfile"
    /\ \E ok \in BOOLEAN : sup' = BootStep(sup, ok, "load")
    /\ SupRest

\* ConfigStore::load_initial_config(cli_config_path).await?, AppState::new
SupLoadInitial ==
    /\ sup.pc = "load"
    /\ \E ok \in BOOLEAN : sup' = BootStep(sup, ok, "signals")
    /\ SupRest

\* signal(SignalKind::terminate())?, interrupt()?, hangup()?
SupRegisterSignals ==
    /\ sup.pc = "signals"
    /\ \E ok \in BOOLEAN : sup' = BootStep(sup, ok, "spawn")
    /\ SupRest

\* the two tokio::spawn calls; run_daemon enters its main loop
SupSpawn ==
    /\ sup.pc = "spawn"
    /\ sup' = [sup EXCEPT !.pc = "running", !.proxy = "binding",
                          !.health = "running"]
    /\ SupRest

\* ProxyServer::run in its task: the listener is bound to the port of the
\* configuration run loads, or run returns the Err, which the task logs
\* before it ends
ProxyBind ==
    /\ sup.proxy = "binding"
    /\ \E ok \in BOOLEAN :
          sup' = IF ok
                 THEN [sup EXCEPT !.proxy = "listening",
                                  !.listen = snaps[cfgCell].port]
                 ELSE [sup EXCEPT !.proxy = "failed"]
    /\ SupRest

\* the accept loop admits a connection
SupConnOpen ==
    /\ sup.proxy = "listening"
    /\ try_acquire_connection(activeConns, snaps[cfgCell].max)
    /\ activeConns' = activeConns + 1
    /\ UNCHANGED <<snaps, cfgCell, lbCell, rr, backends, hs, rl, mk, rrHist,
                   rrClean, seqVars, protVars, supVars>>

\* a connection handler ends and releases its slot
SupConnClose ==
    /\ activeConns > 0
    /\ activeConns' = release_connection(activeConns)
    /\ UNCHANGED <<snaps, cfgCell, lbCell, rr, backends, hs, rl, mk, rrHist,
                   rrClean, seqVars, protVars, supVars>>

\* HealthChecker::run, the ticker.tick() branch of its select!: a round of
\* probes (their marks on the backends are the health specification's)
HealthRound ==
    /\ sup.health = "running"
    /\ sup.rounds < MaxRounds
    /\ sup' = [sup EXCEPT !.rounds = @ + 1]
    /\ SupRest

\* the accept loop's shutdown.recv() branch
ProxyStop ==
    /\ sup.proxy = "listening"
    /\ sup.sent
    /\ sup' = [sup EXCEPT !.proxy = "stopped"]
    /\ SupRest

\* HealthChecker::run's shutdown.recv() branch
HealthStop ==
    /\ sup.health = "running"
    /\ sup.sent
    /\ sup' = [sup EXCEPT !.health = "stopped"]
    /\ SupRest

Signals == {"SIGTERM", "SIGINT", "SIGHUP"}

\* A signal is delivered to the process once its stream is registered; a
\* signal that is already pending is not counted again.
Deliver(s, sig) ==
    CASE sig = "SIGTERM" -> [s EXCEPT !.term = TRUE]
      [] sig = "SIGINT"  -> [s EXCEPT !.int = TRUE]
      [] sig = "SIGHUP"  -> [s EXCEPT !.hup = TRUE]

SignalArrives(sig) ==
    /\ sup.pc \notin {"pidfile", "load", "signals", "exited"}
    /\ sup' = Deliver(sup, sig)
    /\ sup' # sup
    /\ SupRest

\* trigger_reload: a unit is sent on the reload channel
TriggerReload ==
    /\ sup.pc \notin {"pidfile", "load", "exited"}
    /\ sup.reloadq < MaxReloadQ
    /\ sup' = [sup EXCEPT !.reloadq = @ + 1]
    /\ SupRest

\* main loop, sigterm.recv() and sigint.recv(): break
Break(s, sig) == [s EXCEPT !.pc = "shutdown", !.why = sig]

MainSigterm ==
    /\ sup.pc = "running"
    /\ sup.term
    /\ sup' = Break([sup EXCEPT !.term = FALSE], "SIGTERM")
    /\ SupRest

MainSigint ==
    /\ sup.pc = "running"
    /\ sup.int
    /\ sup' = Break([sup EXCEPT !.int = FALSE], "SIGINT")
    /\ SupRest

\* main loop, after reload_config returned: an Err is logged, the loop goes on
AfterReload_BreakOnErr(s, ok) ==
    IF ok THEN [s EXCEPT !.reloads = @ + 1, !.last = "ok"]
    ELSE [s EXCEPT !.reloads = @ + 1, !.last = "rejected", !.pc = "shutdown"]

AfterReload(s, ok) ==
    [s EXCEPT !.reloads = @ + 1, !.last = IF ok THEN "ok" ELSE "rejected"]

\* the configuration files of the supervisor's specification also name the
\* listen port; validate turns port 0 down
Ports == 0..2

BootPort == 1

WithPort(c, port) == [port |-> port] @@ c

\* swap_config: a port that differs from the installed one is logged, the
\* listener is left as it is
swap_listener_Rebind(listen, old_port, new_port) ==
    IF old_port # new_port THEN new_port ELSE listen

swap_listener(listen, old_port, new_port) == listen

\* ConfigStore::reload_config(&state, None).await as the main loop calls it:
\* the candidate is validated and, if accepted, swapped in
MainReload(s) ==
    /\ sup.reloads < MaxReloads
    /\ \E readable \in BOOLEAN, c \in Candidates, port \in Ports :
       \E reach \in SUBSET (1..Len(c.pool)) :
          LET ok == ValidateAndLoadOk(readable, c, reach) /\ port # 0
          IN  /\ ok => Len(snaps) < MaxSnaps
              /\ IF ok
                 THEN /\ snaps' = Append(snaps, WithPort(c, port))
                      /\ backends' = Append(backends, NewPool(c))
                      /\ rr' = Append(rr, 0)
                      /\ cfgCell' = Len(snaps')
                      /\ lbCell' = Len(snaps')
                      /\ sup' = [AfterReload(s, ok) EXCEPT !.listen =
                                   swap_listener(@, snaps[cfgCell].port, port)]
                 ELSE /\ SupKeepConfig
                      /\ sup' = AfterReload(s, ok)
    /\ SupKeepTasks

\* main loop, sighup.recv()
MainSighup ==
    /\ sup.pc = "running"
    /\ sup.hup
    /\ MainReload([sup EXCEPT !.hup = FALSE])

\* main loop, Some(()) = reload_rx.recv()
MainReloadRx ==
    /\ sup.pc = "running"
    /\ sup.reloadq > 0
    /\ MainReload([sup EXCEPT !.reloadq = @ - 1])

\* graceful_shutdown: state.trigger_shutdown()
ShutdownTrigger ==
    /\ sup.pc = "shutdown"
    /\ sup' = [sup EXCEPT !.pc = "join_proxy", !.sent = TRUE]
    /\ SupRest

\* graceful_shutdown: proxy_handle.await
JoinProxy ==
    /\ sup.pc = "join_proxy"
    /\ sup.proxy \in {"failed", "stopped"}
    /\ sup' = [sup EXCEPT !.pc = "join_health"]
    /\ SupRest

\* graceful_shutdown: health_handle.await
JoinHealth ==
    /\ sup.pc = "join_health"
    /\ sup.health = "stopped"
    /\ sup' = [sup EXCEPT !.pc = "drain"]
    /\ SupRest

ShutdownWaits_None == {}

ShutdownWaits == {"join_proxy", "join_health", "drain"}

\* graceful_shutdown: no active connection is left; it returns Ok, run_daemon
\* returns Ok and the process exits with success
ShutdownDone ==
    /\ sup.pc = "drain"
    /\ activeConns = 0
    /\ sup' = [sup EXCEPT !.pc = "exited", !.exit = "ok", !.end = "drained"]
    /\ SupRest

\* graceful_shutdown: the timeout of GRACEFUL_SHUTDOWN_TIMEOUT_SECS ends the
\* wait; it returns Ok all the same
ShutdownTimeout ==
    /\ sup.pc \in ShutdownWaits
    /\ sup' = [sup EXCEPT !.pc = "exited", !.exit = "ok", !.end = "timeout"]
    /\ SupRest

InitSup ==
    /\ \E c \in BootConfigs :
          snaps = <<WithPort(c, BootPort)>> /\ backends = <<NewPool(c)>>
    /\ cfgCell = 1
    /\ lbCell = 1
    /\ rr = <<0>>
    /\ activeConns = 0
    /\ hs = [h \in Handlers |-> IdleHandler]
    /\ rl = IdleReload
    /\ mk = [m \in Markers |-> IdleMarker]
    /\ rrHist = <<>>
    /\ rrClean = TRUE
    /\ SeqUnused
    /\ ProtUnused
    /\ sup = NewSupervisor
    /\ hc = NewChecker

NextSup ==
    \/ SupPidFile
    \/ SupLoadInitial
    \/ SupRegisterSignals
    \/ SupSpawn
    \/ ProxyBind
    \/ SupConnOpen
    \/ SupConnClose
    \/ HealthRound
    \/ ProxyStop
    \/ HealthStop
    \/ \E sig \in Signals : SignalArrives(sig)
    \/ TriggerReload
    \/ MainSigterm
    \/ MainSigint
    \/ MainSighup
    \/ MainReloadRx
    \/ ShutdownTrigger
    \/ JoinProxy
    \/ JoinHealth
    \/ ShutdownDone
    \/ ShutdownTimeout

SpecSup == InitSup /\ [][NextSup]_vars

\* The runtime runs the supervisor's task, and its timer ends the timeout of
\* graceful_shutdown.
SpecSupLive ==
    SpecSup /\ WF_vars(ShutdownTrigger) /\ WF_vars(ShutdownTimeout)

\* ------------------------------ connect_with_retry with cooldown and protection

\* One handler at a time runs handle_connection on the boot configuration,
\* whose backends may be in cooldown and whose connect results feed the
\* ProtectionMode; health probes mark the backends and cooldowns run out in
\* between.  The clock of the ProtectionMode's window stands still.
CwH == 1

Min(a, b) == IF a < b THEN a ELSE b

saturating_mul_Wrapping(a, b) == (a * b) % (u64_MAX + 1)

saturating_mul(a, b) == Min(a * b, u64_MAX)

\* connect_with_retry: backoff_initial_ms, backoff_max_ms and cooldown_ms of
\* the configuration, doubled if the ProtectionMode is enabled
EffectiveTuning(c, enabled) ==
    IF enabled
    THEN <<saturating_mul(c.bi, 2), saturating_mul(c.bm, 2),
           saturating_mul(c.cooldown, 2)>>
    ELSE <<c.bi, c.bm, c.cooldown>>

\* The handler of this specification also keeps en, what is_enabled()
\* returned, eff, the tuning it computed from it, n0, the length of the
\* healthy subset it found, visit, the backends the full sweep has visited
\* and what it did with each, and res, how its last connect_with_retry ended.
CwIdle ==
    [en |-> FALSE, eff |-> <<0, 0, 0>>, n0 |-> 0, visit |-> <<>>,
     res |-> "none"] @@ IdleHandler

\* a connect failure of the proxy path and the arguments it passed to
\* mark_connect_failure
ObserveFailure(kind, args) ==
    [by |-> "proxy", kind |-> kind, tick |-> 1 - seen.tick, args |-> args]

CwRest ==
    UNCHANGED <<snaps, cfgCell, lbCell, rl, mk, rrHist, rrClean, calls, pr,
                clock, win, flips, supVars>>

\* handle_connection up to the sweeps: the slot is acquired, the
\* configuration, the ProtectionMode, the balancer and the pool are read
CwStart ==
    /\ hs[CwH].pc \in FreePcs
    /\ try_acquire_connection(activeConns, snaps[cfgCell].max)
    /\ activeConns' = activeConns + 1
    /\ LET n == Len(healthy_backends(cfgCell))
           r == [CwIdle EXCEPT !.adm = TRUE, !.cfg = cfgCell, !.lb = lbCell,
                               !.pool = cfgCell, !.en = prot.enabled,
                               !.n0 = n,
                               !.eff = EffectiveTuning(snaps[cfgCell],
                                                       prot.enabled)]
       IN  hs' = [hs EXCEPT ![CwH] =
                   IF n > 0 THEN [r EXCEPT !.pc = "sweep1", !.left = n]
                   ELSE [r EXCEPT !.pc = "sweep2", !.idx = 1]]
    /\ UNCHANGED <<rr, backends, prot, seen>>
    /\ CwRest

\* healthy sweep: select_backend, the cooldown test, the address
CwSelect ==
    /\ hs[CwH].pc = "sweep1"
    /\ \E resolved \in BOOLEAN :
       LET lb == hs[CwH].lb
           healthy == healthy_backends(lb)
       IN  IF healthy = <<>>
           THEN /\ rr' = rr
                /\ hs' = [hs EXCEPT ![CwH] = [@ EXCEPT !.pc = "sweep2",
                                                       !.left = 0, !.idx = 1]]
           ELSE LET sel == select_round_robin(healthy, rr[lb])
                IN  /\ rr' = [rr EXCEPT ![lb] =
                                  FetchAddCursor(rr[lb], PoolLen(lb))]
                    /\ hs' = [hs EXCEPT ![CwH] =
                                IF is_in_cooldown(backends[lb][sel]) \/ ~resolved
                                THEN AfterAttempt(@)
                                ELSE [@ EXCEPT !.pc = "conn1", !.be = <<lb, sel>>]]
    /\ UNCHANGED <<backends, activeConns, prot, seen>>
    /\ CwRest

\* what a successful connect does to the backend, the ProtectionMode and the
\* handler, which goes on to relay behind its ConnectionGuard
CwConnected(be) ==
    /\ Backend(be).cs < MaxCount
    /\ backends' = SetBackend(be, increment_connections(
           mark_connect_success(Backend(be), snaps[hs[CwH].cfg].succT)))
    /\ prot' = record_success(prot, clock).p
    /\ UNCHANGED <<rr, activeConns, seen>>
    /\ CwRest

\* what a failed connect does to the backend and the ProtectionMode
CwFailed(be, kind) ==
    /\ Backend(be).cf < MaxCount
    /\ kind \in StormKinds => prot.wcount < MaxWindowCount
    /\ backends' = SetBackend(be,
           mark_connect_failure(Backend(be), snaps[hs[CwH].cfg].failT,
                                hs[CwH].eff[3]))
    /\ prot' = record_failure(prot, kind, clock).p
    /\ seen' = ObserveFailure(kind, hs[CwH].eff)
    /\ UNCHANGED <<rr, activeConns>>
    /\ CwRest

\* healthy sweep, Ok(Ok(stream))
CwConnectOk ==
    /\ hs[CwH].pc = "conn1"
    /\ CwConnected(hs[CwH].be)
    /\ hs' = [hs EXCEPT ![CwH] = [@ EXCEPT !.pc = "relay", !.left = 0,
                                           !.res = "ok"]]

\* healthy sweep, Ok(Err(e)) and Err(_)
CwConnectFail(kind) ==
    /\ hs[CwH].pc = "conn1"
    /\ CwFailed(hs[CwH].be, kind)
    /\ hs' = [hs EXCEPT ![CwH] = AfterAttempt(@)]

FullVisitOutcome_HealthyOnly(resolved, b) ==
    IF ~resolved THEN "unresolved"
    ELSE IF is_in_cooldown(b) \/ ~b.healthy THEN "cooldown"
    ELSE "connect"

\* full sweep: what is done with the next backend of the pool
FullVisitOutcome(resolved, b) ==
    IF ~resolved THEN "unresolved"
    ELSE IF is_in_cooldown(b) THEN "cooldown"
    ELSE "connect"

FullSweepDone_Early(idx, n) == idx >= n

\* full sweep: the for loop over all_backends has run out
FullSweepDone(idx, n) == idx > n

\* full sweep: the next backend of the pool; it is passed over if its
\* address does not resolve or if it is in cooldown
CwFullVisit ==
    /\ hs[CwH].pc = "sweep2"
    /\ ~FullSweepDone(hs[CwH].idx, PoolLen(hs[CwH].pool))
    /\ \E resolved \in BOOLEAN :
       LET i == hs[CwH].idx
           be == <<hs[CwH].pool, i>>
           outcome == FullVisitOutcome(resolved, Backend(be))
       IN  hs' = [hs EXCEPT ![CwH] =
                   IF outcome = "connect"
                   THEN [@ EXCEPT !.pc = "conn2", !.be = be]
                   ELSE [@ EXCEPT !.idx = i + 1,
                                  !.visit = Append(@, <<i, outcome>>)]]
    /\ UNCHANGED <<rr, backends, activeConns, prot, seen>>
    /\ CwRest

\* full sweep, Ok(Ok(stream))
CwFullOk ==
    /\ hs[CwH].pc = "conn2"
    /\ CwConnected(hs[CwH].be)
    /\ hs' = [hs EXCEPT ![CwH] =
                [@ EXCEPT !.pc = "relay", !.res = "ok",
                          !.visit = Append(@, <<hs[CwH].idx, "connected">>)]]

\* full sweep, Ok(Err(e)) and Err(_)
CwFullFail(kind) ==
    /\ hs[CwH].pc = "conn2"
    /\ CwFailed(hs[CwH].be, kind)
    /\ hs' = [hs EXCEPT ![CwH] =
                [@ EXCEPT !.pc = "sweep2", !.idx = @ + 1, !.be = NoBackend,
                          !.visit = Append(@, <<hs[CwH].idx, "failed">>)]]

\* all backends failed: record_global_unavailable, bail!; handle_connection
\* releases the slot and returns the error, which the task logs
CwAllFailed ==
    /\ hs[CwH].pc = "sweep2"
    /\ FullSweepDone(hs[CwH].idx, PoolLen(hs[CwH].pool))
    /\ prot' = record_global_unavailable(prot).p
    /\ activeConns' = release_connection(activeConns)
    /\ hs' = [hs EXCEPT ![CwH] = [@ EXCEPT !.pc = "idle", !.res = "error",
                                           !.rel = @ + 1]]
    /\ UNCHANGED <<rr, backends, seen>>
    /\ CwRest

\* relay_streams returns: the slot is released, the guard dropped
CwRelayEnd ==
    /\ hs[CwH].pc = "relay"
    /\ activeConns' = release_connection(activeConns)
    /\ backends' = SetBackend(hs[CwH].be,
                              decrement_connections(Backend(hs[CwH].be)))
    /\ hs' = [hs EXCEPT ![CwH] = [@ EXCEPT !.pc = "idle", !.rel = @ + 1]]
    /\ UNCHANGED <<rr, prot, seen>>
    /\ CwRest

\* select_backend of another handler moves the balancer's cursor on
CwOtherSelect ==
    /\ healthy_backends(lbCell) # <<>>
    /\ rr' = [rr EXCEPT ![lbCell] = FetchAddCursor(rr[lbCell], PoolLen(lbCell))]
    /\ UNCHANGED <<backends, activeConns, hs, prot, seen>>
    /\ CwRest

\* the cooldown of a backend runs out
CooldownExpires(p) ==
    /\ is_in_cooldown(backends[cfgCell][p])
    /\ backends' = [backends EXCEPT ![cfgCell][p].cool = FALSE]
    /\ UNCHANGED <<rr, activeConns, hs, prot, seen>>
    /\ CwRest

\* a health probe of a backend fails
CwProbeFail(p) ==
    /\ backends[cfgCell][p].cf < MaxCount
    /\ backends' = SetBackend(<<cfgCell, p>>,
           mark_failure(backends[cfgCell][p], snaps[cfgCell].failT))
    /\ UNCHANGED <<rr, activeConns, hs, prot, seen>>
    /\ CwRest

CwPool == <<"A", "B">>

InitCwr ==
    /\ \E succT \in 1..2, cooldown \in {0, u64_MAX} :
          snaps = <<[max |-> 1, pool |-> CwPool, failT |-> 2, succT |-> succT,
                     cooldown |-> cooldown, bi |-> 1, bm |-> u64_MAX]>>
    /\ backends = <<[p \in 1..Len(CwPool) |-> NewBackendState]>>
    /\ cfgCell = 1
    /\ lbCell = 1
    /\ rr = <<0>>
    /\ activeConns = 0
    /\ hs = [h \in Handlers |-> IF h = CwH THEN CwIdle ELSE IdleHandler]
    /\ rl = IdleReload
    /\ mk = [m \in Markers |-> IdleMarker]
    /\ rrHist = <<>>
    /\ rrClean = TRUE
    /\ prot = NewProtectionMode(2, 1, 1, 0)
    /\ pr = [c \in Callers |-> IdleCall]
    /\ clock = 0
    /\ win = NewWindow(0)
    /\ flips = 0
    /\ SeqUnused
    /\ SupUnused

NextCwr ==
    \/ CwStart
    \/ CwSelect
    \/ CwConnectOk
    \/ \E kind \in BackendErrorKind : CwConnectFail(kind)
    \/ CwFullVisit
    \/ CwFullOk
    \/ \E kind \in BackendErrorKind : CwFullFail(kind)
    \/ CwAllFailed
    \/ CwRelayEnd
    \/ CwOtherSelect
    \/ \E p \in 1..Len(CwPool) : CooldownExpires(p)
    \/ \E p \in 1..Len(CwPool) : CwProbeFail(p)

SpecCwr == InitCwr /\ [][NextCwr]_vars

\* Every step of an admitted handler is taken in the end: the runtime polls
\* the task, a connect ends with a result or with the timeout of
\* backend_connect_timeout_ms, and relay_streams ends with the streams or
\* with the timeout of connection_idle_timeout_ms.  Clients, probes and
\* cooldowns come as they will.
CwHandlerProgress ==
    /\ WF_vars(CwSelect)
    /\ WF_vars(CwConnectOk \/ \E kind \in BackendErrorKind : CwConnectFail(kind))
    /\ WF_vars(CwFullVisit)
    /\ WF_vars(CwFullOk \/ \E kind \in BackendErrorKind : CwFullFail(kind))
    /\ WF_vars(CwAllFailed)
    /\ WF_vars(CwRelayEnd)

\* one boot configuration: recovery at the first success, a cooldown after
\* every failed connect
InitCwrLive ==
    /\ InitCwr
    /\ snaps[1].succT = 1
    /\ snaps[1].cooldown = u64_MAX

SpecCwrLive == InitCwrLive /\ [][NextCwr]_vars /\ CwHandlerProgress

\* ------------------------------------------------- the health checker's loop

HcRest ==
    UNCHANGED <<snaps, cfgCell, lbCell, rr, activeConns, hs, rl, mk, rrHist,
                rrClean, seqVars, protVars, sup>>

\* interval(period): a tick is ready when its due time has come
TickReady(c) == c.next <= c.elapsed

\* ticker.tick().await takes the next tick
TickerTick(c) == [c EXCEPT !.next = @ + 1]

\* a whole health_check_interval_ms goes by
IntervalElapses ==
    /\ hc.pc # "stopped"
    /\ hc.elapsed < MaxIntervals
    /\ hc' = [hc EXCEPT !.elapsed = @ + 1]
    /\ UNCHANGED backends
    /\ HcRest

\* run: the ticker.tick().await before the loop
HcFirstTick ==
    /\ hc.pc = "first_tick"
    /\ TickReady(hc)
    /\ hc' = [TickerTick(hc) EXCEPT !.pc = "select"]
    /\ UNCHANGED backends
    /\ HcRest

\* run, the select!'s ticker.tick() branch: check_all_backends starts
HcRoundStart ==
    /\ hc.pc = "select"
    /\ TickReady(hc)
    /\ hc.rounds < MaxRounds
    /\ hc' = [TickerTick(hc) EXCEPT !.pc = "round", !.rounds = @ + 1,
                                    !.lastAt = hc.next,
                                    !.firstAt = IF @ = -1 THEN hc.elapsed ELSE @]
    /\ UNCHANGED backends
    /\ HcRest

\* check_all_backends: the probe of the backend has marked it and was awaited
HcRoundDone ==
    /\ hc.pc = "round"
    /\ \E ok \in BOOLEAN :
          backends' = SetBackend(TheBackend,
              IF ok THEN mark_success(Backend(TheBackend), snaps[cfgCell].succT)
              ELSE mark_failure(Backend(TheBackend), snaps[cfgCell].failT))
    /\ hc' = [hc EXCEPT !.pc = "select"]
    /\ HcRest

\* graceful_shutdown's broadcast reaches the checker's receiver
HcBroadcast ==
    /\ ~hc.sent
    /\ hc.pc # "stopped"
    /\ hc' = [hc EXCEPT !.sent = TRUE]
    /\ UNCHANGED backends
    /\ HcRest

\* run, the select!'s shutdown.recv() branch: break
HcStop ==
    /\ hc.pc = "select"
    /\ hc.sent
    /\ hc' = [hc EXCEPT !.pc = "stopped"]
    /\ UNCHANGED backends
    /\ HcRest

InitTicker ==
    /\ snaps = <<[max |-> 1, pool |-> <<"A">>, failT |-> 2, succT |-> 2,
                  cooldown |-> 0]>>
    /\ backends = <<<<NewBackendState>>>>
    /\ cfgCell = 1
    /\ lbCell = 1
    /\ rr = <<0>>
    /\ activeConns = 0
    /\ hs = [h \in Handlers |-> IdleHandler]
    /\ rl = IdleReload
    /\ mk = [m \in Markers |-> IdleMarker]
    /\ rrHist = <<>>
    /\ rrClean = TRUE
    /\ SeqUnused
    /\ ProtUnused
    /\ SupUnused

NextTicker ==
    \/ IntervalElapses
    \/ HcFirstTick
    \/ HcRoundStart
    \/ HcRoundDone
    \/ HcBroadcast
    \/ HcStop

SpecTicker == InitTicker /\ [][NextTicker]_vars

\* -------------------------------------------------------------- properties

\* the handlers that hold a ConnectionGuard: from the successful connect to
\* the drop of the guard when handle_connection returns
GuardPcs == {"relay", "drop"}

GuardsOn(be) == {h \in Handlers : hs[h].pc \in GuardPcs /\ hs[h].be = be}

AllBackends == {be \in (1..Len(snaps)) \X (1..MaxPool) : be[2] <= PoolLen(be[1])}

Max(S) == CHOOSE x \in S : \A y \in S : y <= x

\* inside connect_with_retry, after its three loads
SweepPcs == {"sweep1", "conn1", "sweep2"}

SwapReturned == rl.pc \notin {"store_cfg", "store_lb"}

\* C1 (as claimed): in every reachable state the global active-connection
\* counter is at most the max_concurrent_connections of the installed snapshot.
C1_CountWithinInstalledLimit == activeConns <= snaps[cfgCell].max

\* C1 (amended): the global active-connection counter never exceeds the
\* largest max_concurrent_connections of the snapshots installed so far.
C1_CountWithinLargestLimit ==
    activeConns <= Max({snaps[s].max : s \in 1..cfgCell})

C1_Witness ==
    /\ cfgCell > 1
    /\ snaps[cfgCell].max < snaps[1].max
    /\ activeConns = snaps[1].max

\* C2: the tuning, the balancer and the pool a handler uses during one
\* connect_with_retry call belong to the same snapshot.
C2_OneSnapshotPerCall ==
    \A h \in Handlers :
        hs[h].pc \in SweepPcs => hs[h].cfg = hs[h].lb /\ hs[h].lb = hs[h].pool

\* C3: whenever no mark_failure / mark_success call on the backend is in
\* progress, consecutive_failures = 0 or consecutive_successes = 0.
C3_CountersExclusiveAtRest ==
    (\A m \in Markers : mk[m].pc = "idle")
        => Backend(TheBackend).cf = 0 \/ Backend(TheBackend).cs = 0

C3_Witness ==
    /\ \A m \in Markers : mk[m].pc = "idle"
    /\ Backend(TheBackend).cs > 0
    /\ ~Backend(TheBackend).healthy

\* C4: every backend's active_connections is non-negative and equals the
\* number of live ConnectionGuards on it, and only a handler whose connect
\* succeeded holds a guard.
C4_ActiveEqualsLiveGuards ==
    /\ \A be \in AllBackends :
          /\ Backend(be).active >= 0
          /\ Backend(be).active = Cardinality(GuardsOn(be))
    /\ \A h \in Handlers : hs[h].pc \in GuardPcs <=> hs[h].be \in AllBackends /\ hs[h].pc # "conn1"

C4_Witness == \E be \in AllBackends : Backend(be).active = 2

\* C5: a handler that was admitted has released its slot exactly once when it
\* ends, a rejected one never releases, and the global counter equals the
\* number of admitted handlers that have not released yet.
C5_SlotReleasedOnce ==
    /\ \A h \in Handlers :
          /\ hs[h].rel <= 1
          /\ ~hs[h].adm => hs[h].rel = 0
          /\ hs[h].pc \in FreePcs /\ hs[h].adm => hs[h].rel = 1
          /\ hs[h].pc = "rejected" => ~hs[h].adm
    /\ activeConns = Cardinality({h \in Handlers : hs[h].adm /\ hs[h].rel = 0})

C5_Witness ==
    \E h, g \in Handlers :
        /\ hs[h].pc = "idle" /\ hs[h].adm /\ hs[h].rel = 1
        /\ hs[g].pc = "rejected" /\ hs[g].rel = 0
        /\ activeConns = 0

\* C6: a handler whose admission check finds the global count at (or above)
\* max_concurrent_connections returns at once: no backend is selected or
\* connected to, no backend state, cursor or global count changes.
C6_RejectDoesNoBackendWork ==
    [][\A h \in Handlers :
          (/\ hs[h].pc = "acquire"
           /\ activeConns >= snaps[hs[h].cfg0].max
           /\ hs'[h] # hs[h])
          => /\ hs'[h].pc = "rejected"
             /\ ~hs'[h].adm
             /\ hs'[h].rel = 0
             /\ hs'[h].be = NoBackend
             /\ UNCHANGED <<backends, rr, activeConns>>]_vars

C6_Witness ==
    \E h, g \in Handlers :
        /\ hs[h].pc = "relay"
        /\ Backend(hs[h].be).active = 1
        /\ activeConns = 1
        /\ snaps[cfgCell].max = 1
        /\ hs[g].pc = "rejected"

\* C7: a reload whose candidate is unreadable, invalid or has no reachable
\* backend ends in an error, and the installed configuration (with its pool)
\* and load balancer are the ones installed before the reload.
C7_RejectedReloadKeepsSnapshot ==
    [][/\ (rl.pc = "validate" /\ rl'.pc # "validate" /\ rl'.why # "none")
          => rl'.pc = "failed" /\ UNCHANGED <<cfgCell, lbCell, snaps, backends, rr>>
       /\ rl.pc = "failed"
          => /\ <<cfgCell, lbCell>> = rl.before
             /\ <<cfgCell', lbCell'>> = rl.before
             /\ Len(snaps') = Len(snaps)]_vars

C7_Witness ==
    /\ rl.pc = "failed"
    /\ rl.why = "unreachable"
    /\ activeConns > 0

\* C8 (as claimed): after a valid reload every select_backend call that
\* starts once swap_config has returned yields a backend of the new pool.
C8_SelectAfterSwapYieldsNewPool ==
    [][\A h \in Handlers :
          (/\ cfgCell > 1
           /\ SwapReturned
           /\ hs[h].pc = "sweep1"
           /\ hs'[h].pc = "conn1")
          => hs'[h].be[1] = cfgCell]_vars

\* C8 (amended): a valid reload with a reachable backend installs the new
\* configuration and balancer, and every select_backend call on the balancer
\* that state.load_balancer() returns once swap_config has returned yields a
\* backend of the new pool.
C8_SelectOnNewBalancerYieldsNewPool ==
    [][/\ (rl.pc = "validate" /\ rl'.pc # "validate" /\ rl'.why = "none")
          => rl'.pc = "store_cfg"
       /\ (rl.pc = "store_lb" /\ rl'.pc # "store_lb")
          => cfgCell' = Len(snaps) /\ lbCell' = Len(snaps)
       /\ \A h \in Handlers :
            (/\ cfgCell > 1
             /\ SwapReturned
             /\ hs[h].pc = "sweep1"
             /\ hs[h].lb = lbCell
             /\ hs'[h].pc = "conn1")
            => hs'[h].be[1] = cfgCell]_vars

C8_Witness ==
    \E h \in Handlers :
        /\ cfgCell > 1
        /\ SwapReturned
        /\ hs[h].pc = "conn1"
        /\ hs[h].lb = lbCell
        /\ hs[h].be[1] = cfgCell

\* C9: from the successful connect until the handler ends, the backend it
\* relays to never changes, whatever reloads and health transitions happen,
\* and the connection stays counted on that backend.
C9_RelayBackendFixed ==
    [][\A h \in Handlers :
          hs[h].pc = "relay"
          => /\ hs'[h].pc \in {"relay", "drop"}
             /\ hs'[h].be = hs[h].be
             /\ Backend(hs[h].be).active >= 1]_vars

C9_Witness ==
    \E h \in Handlers :
        /\ hs[h].pc = "relay"
        /\ hs[h].be[1] # cfgCell
        /\ ~Backend(hs[h].be).healthy
        /\ SwapReturned

\* C10: while all n backends of the pool stay healthy, the i-th sequential
\* round-robin selection (i from 0) returns the backend at position i mod n.
C10_RoundRobinOrder ==
    rrClean =>
        \A i \in 1..Len(rrHist) :
            rrHist[i] = snaps[1].pool[((i - 1) % PoolLen(1)) + 1]

C10_Witness ==
    /\ rrClean
    /\ snaps[1].pool = <<"A", "B", "C">>
    /\ rrHist = <<"A", "B", "C", "A", "B", "C">>

OnlyFailures(cs) == \A i \in 1..Len(cs) : cs[i] = "F"

\* the number of successes at the end of cs, with no failure after them
RECURSIVE TrailingSuccesses(_)
TrailingSuccesses(cs) ==
    IF cs = <<>> \/ cs[Len(cs)] # "S" THEN 0
    ELSE 1 + TrailingSuccesses(SubSeq(cs, 1, Len(cs) - 1))

\* C11: from a fresh (healthy, zero counters) backend and with calls of
\* mark_failure only, the backend is healthy after fewer than fail_threshold
\* calls and unhealthy from the fail_threshold-th on; one mark_success after
\* exactly fail_threshold failures, with success_threshold > 1, leaves it
\* unhealthy.
C11_FailThresholdFlips ==
    /\ OnlyFailures(calls)
          => (Backend(TheBackend).healthy <=> Len(calls) < snaps[1].failT)
    /\ (/\ Len(calls) = snaps[1].failT + 1
        /\ OnlyFailures(SubSeq(calls, 1, snaps[1].failT))
        /\ calls[Len(calls)] = "S"
        /\ snaps[1].succT > 1)
          => ~Backend(TheBackend).healthy

C11_Witness ==
    /\ snaps[1].failT = 3
    /\ snaps[1].succT = 3
    /\ calls = <<"F", "F", "F", "S">>
    /\ ~Backend(TheBackend).healthy

\* C12: a mark_success call on an unhealthy backend makes it healthy exactly
\* when it completes success_threshold successes in a row since the last
\* mark_failure.
C12_SuccessThresholdRecovers ==
    [][(~Backend(TheBackend).healthy /\ calls' = Append(calls, "S"))
          => (backends'[1][1].healthy
                <=> TrailingSuccesses(calls') = snaps[1].succT)]_vars

C12_Witness ==
    /\ snaps[1].succT = 2
    /\ calls = <<"F", "S", "F", "S", "S">>
    /\ Backend(TheBackend).healthy

\* caller 1's call of op happens in this step
CallStep(op) ==
    pr[1].pc = "idle" /\ pr'[1].pc = "returned" /\ pr'[1].op = op

\* C13: a record_failure of kind Timeout or ConnectionRefused made while
\* protection is disabled enables it, with reason TimeoutOrRefusedStorm and
\* result true, exactly when the failures of these kinds recorded since the
\* start of the current window then number trigger_threshold; a failure that
\* comes more than window_ms after the window start is the first of a new
\* window, and the counter holds the failures of the current window only.
C13_StormEnablesAtThreshold ==
    [][(CallStep("record_failure") /\ pr'[1].kind \in StormKinds)
          => /\ prot'.wcount = win'.count
             /\ (clock - win.start > prot.window_ms) => prot'.wcount = 1
             /\ ~prot.enabled
                  => /\ prot'.enabled <=> win'.count = prot.threshold
                     /\ pr'[1].ret <=> prot'.enabled
                     /\ prot'.enabled
                          => prot'.reason = REASON_TIMEOUT_REFUSED_STORM]_vars

C13_Witness ==
    /\ prot.threshold = 2
    /\ pr[1] = Returned("record_failure", "Timeout", TRUE)
    /\ prot.enabled
    /\ prot.reason = REASON_TIMEOUT_REFUSED_STORM
    /\ prot.wcount = 2
    /\ prot.wstart > 0

\* C14: a record_success made while protection is enabled disables it exactly
\* when it completes stable_recoveries_required successes since the last
\* record_failure (of any kind) or record_global_unavailable; the disabling
\* call returns true and leaves reason None, window_count 0 and
\* stable_success_count 0.
C14_StableSuccessesDisable ==
    [][(CallStep("record_success") /\ prot.enabled)
          => /\ ~prot'.enabled <=> win.streak + 1 = prot.required
             /\ pr'[1].ret <=> ~prot'.enabled
             /\ ~prot'.enabled
                  => /\ prot'.reason = REASON_NONE
                     /\ prot'.wcount = 0
                     /\ prot'.stable = 0]_vars

C14_Witness ==
    /\ prot.required = 2
    /\ pr[1] = Returned("record_success", "none", TRUE)
    /\ ~prot.enabled
    /\ prot.wstart > 0

\* C15: after any record_global_unavailable call protection is enabled, its
\* reason is AllBackendsUnavailable and stable_success_count is 0.
C15_GlobalUnavailableEnables ==
    [][CallStep("record_global_unavailable")
          => /\ prot'.enabled
             /\ prot'.reason = REASON_ALL_BACKENDS_UNAVAILABLE
             /\ prot'.stable = 0]_vars

C15_Witness ==
    /\ pr[1] = Returned("record_global_unavailable", "none", FALSE)
    /\ prot.reason = REASON_ALL_BACKENDS_UNAVAILABLE
    /\ prot.wcount >= prot.threshold
    /\ prot.required > 1

\* C17: a record_success made while protection is disabled changes no field
\* of the ProtectionMode and returns false.
C17_SuccessWhileDisabledIsNoOp ==
    [][(CallStep("record_success") /\ ~prot.enabled)
          => prot' = prot /\ ~pr'[1].ret]_vars

C17_Witness ==
    /\ pr[1] = Returned("record_success", "none", FALSE)
    /\ ~prot.enabled
    /\ prot.reason = REASON_NONE
    /\ prot.wcount = 0
    /\ prot.wstart > 0

EnablingOps == {"record_failure", "record_global_unavailable"}

\* C16: in every interleaving of concurrent calls, a record_failure or
\* record_global_unavailable call returns true exactly when its own step
\* changed enabled from false to true, every such change is returned as true
\* by one call, and a call that started with protection enabled, with no
\* disable since, returns false.
C16_EnableReportedOnce ==
    /\ [](flips = 0)
    /\ [](\A c \in Callers :
            (/\ pr[c].pc = "returned"
             /\ pr[c].op \in EnablingOps
             /\ pr[c].en0
             /\ ~pr[c].dis) => ~pr[c].ret)
    /\ [][\A c \in Callers :
            (/\ pr[c].pc \notin {"idle", "returned"}
             /\ pr'[c].pc = "returned"
             /\ pr'[c].op \in EnablingOps)
            => (pr'[c].ret <=> (~prot.enabled /\ prot'.enabled))]_vars

C16_Witness ==
    \E c, d \in Callers :
        /\ pr[c].pc = "returned" /\ pr[c].op = "record_failure"
        /\ pr[d].pc = "returned" /\ pr[d].op = "record_global_unavailable"
        /\ ~pr[c].en0 /\ ~pr[d].en0
        /\ ~pr[c].dis /\ ~pr[d].dis
        /\ pr[c].ret /\ ~pr[d].ret
        /\ prot.enabled

\* C18: every connect failure (Timeout, ConnectionRefused or Other) observed
\* by the proxy path or by a health probe updates the backend's counters and
\* is recorded in the ProtectionMode as record_failure does.
C18_BothPathsFeedProtection ==
    [][(seen'.tick # seen.tick /\ seen'.kind \in BackendErrorKind)
          => /\ backends'[1][1].cf = Backend(TheBackend).cf + 1
             /\ prot' = record_failure(prot, seen'.kind, clock).p]_vars

\* C19: a proxy listener that cannot be bound at boot is fatal: the main loop
\* serves no request while the listener is missing, and the process ends with
\* an error.
C19_BindFailureIsFatal ==
    /\ [](sup.proxy = "failed" /\ sup.pc = "exited" => sup.exit = "error")
    /\ [][sup.proxy = "failed" /\ sup.pc = "running"
             => sup'.reloads = sup.reloads]_vars

\* C20: the main loop is left only by the step that takes a pending SIGTERM
\* or SIGINT, and that step starts the graceful shutdown; taking a SIGHUP or a
\* request from the reload channel runs reload_config once and the loop goes
\* on, whether the reload was accepted or rejected.
C20_LoopLeftOnlyOnTermOrInt ==
    [][/\ (sup.pc = "running" /\ sup'.pc # "running")
           => /\ sup'.pc = "shutdown"
              /\ \/ sup.term /\ ~sup'.term /\ sup'.why = "SIGTERM"
                 \/ sup.int /\ ~sup'.int /\ sup'.why = "SIGINT"
              /\ sup'.reloads = sup.reloads
       /\ (sup.pc = "running"
              /\ ((sup.hup /\ ~sup'.hup) \/ sup'.reloadq < sup.reloadq))
           => /\ sup'.reloads = sup.reloads + 1
              /\ sup'.last \in {"ok", "rejected"}
              /\ sup'.pc = "running"
       /\ (sup'.pc = "shutdown" /\ sup.pc # "shutdown") => sup.pc = "running"
      ]_vars

\* the loop still runs after an accepted and a rejected reload
C20_Witness ==
    /\ sup.pc = "running"
    /\ sup.reloads >= 2
    /\ sup.last = "rejected"
    /\ cfgCell = 2

\* C21: once the shutdown is broadcast, the accept loop admits no further
\* client and the health checker starts no further round of probes.
C21_BroadcastStopsAcceptAndTicks ==
    [][sup.sent => /\ activeConns' <= activeConns
                   /\ sup'.rounds = sup.rounds]_vars

\* C22: graceful_shutdown always ends, and ends in success: it waits for the
\* accept loop, then for the health checker, then for the active-connection
\* count to be zero, and returns when the count is zero or when the timeout
\* has elapsed, even if a connection never closes.
C22_GracefulShutdownTerminates ==
    /\ (sup.pc = "shutdown") ~> (sup.pc = "exited")
    /\ [](sup.pc = "exited" /\ sup.why # "none" => sup.exit = "ok")
    /\ [][/\ (sup.pc = "join_proxy" /\ sup'.pc = "join_health")
              => sup.sent /\ sup.proxy \in {"stopped", "failed"}
          /\ (sup.pc # "drain" /\ sup'.pc = "drain")
              => sup.pc = "join_health" /\ sup.health = "stopped"
          /\ (sup.end = "none" /\ sup'.end = "drained")
              => sup.pc = "drain" /\ activeConns = 0
          /\ (sup.pc \in {"shutdown", "join_proxy", "join_health", "drain"}
                /\ sup'.pc # sup.pc)
              => sup'.pc \in {"join_proxy", "join_health", "drain", "exited"}
         ]_vars

\* the timeout ended the wait while a connection was still open
C22_Witness ==
    /\ sup.pc = "exited"
    /\ sup.end = "timeout"
    /\ activeConns > 0

\* C23: a reload that is accepted installs its snapshot, whatever listen port
\* it names, and leaves the listener as it is: once bound, the accept loop's
\* port never changes.
C23_PortChangeKeepsListener ==
    [][/\ (sup'.reloads # sup.reloads /\ sup'.last = "ok")
           => /\ cfgCell' = Len(snaps') /\ lbCell' = Len(snaps')
              /\ Len(snaps') = Len(snaps) + 1
              /\ sup'.listen = sup.listen
              /\ sup'.proxy = sup.proxy
       /\ sup.listen # 0 => sup'.listen = sup.listen
      ]_vars

\* the accept loop listens on the boot port while the installed snapshot
\* names another one
C23_Witness ==
    /\ sup.proxy = "listening"
    /\ sup.last = "ok"
    /\ sup.listen = BootPort
    /\ snaps[cfgCell].port # sup.listen
    /\ activeConns > 0

\* C24: when a reload installs a new configuration, every backend whose
\* address is in the old and in the new pool has in the new pool the runtime
\* state (health flag, counters, active connections) it had in the old one.
C24_SharedBackendKeepsState ==
    [][cfgCell' # cfgCell
         => \A i \in 1..PoolLen(cfgCell), j \in 1..Len(snaps'[cfgCell'].pool) :
               snaps[cfgCell].pool[i] = snaps'[cfgCell'].pool[j]
                  => backends'[cfgCell'][j] = backends[cfgCell][i]]_vars

\* C25: the health checker's first round of probes starts before a whole
\* health_check_interval_ms has gone by since it started, and every later
\* round is started by the tick that follows the one before.
C25_FirstRoundImmediately ==
    /\ [](hc.rounds >= 1 => hc.firstAt = 0)
    /\ [][hc'.rounds = hc.rounds + 1 /\ hc.rounds >= 1
             => hc'.lastAt = hc.lastAt + 1]_vars

\* What run does instead: the tick that is due at once is taken before the
\* loop, so no round starts before one whole interval has gone by.
FirstRoundAfterOneInterval == hc.rounds >= 1 => hc.firstAt >= 1

\* the connect attempts of the handler start where it enters conn1 or conn2
ConnectPcs == {"conn1", "conn2"}

\* No connect is attempted to a backend that is in cooldown when the sweep
\* considers it.
NoConnectInCooldown ==
    [][(hs'[CwH].pc \in ConnectPcs /\ hs[CwH].pc \notin ConnectPcs)
          => ~is_in_cooldown(Backend(hs'[CwH].be))]_vars

\* C26: the proxy attempts no connect to a backend that is in cooldown when
\* it is considered, in either sweep, and the healthy subset that selection
\* uses holds exactly the backends that are healthy and not in cooldown.
C26_CooldownSkippedEverywhere ==
    /\ NoConnectInCooldown
    /\ [](\A s \in 1..Len(snaps) :
             healthy_backends(s) =
                SelectSeq(Positions(PoolLen(s)),
                          LAMBDA p : /\ backends[s][p].healthy
                                     /\ ~is_in_cooldown(backends[s][p])))

\* the full sweep visits the pool in order and stops at the first backend
\* that connects
FullSweepInOrder ==
    LET visit == hs[CwH].visit
    IN  /\ \A k \in 1..Len(visit) :
             /\ visit[k][1] = k
             /\ visit[k][2] = "connected" => k = Len(visit)
        /\ (hs[CwH].pc = "idle" /\ hs[CwH].res = "error")
              => /\ Len(visit) = PoolLen(hs[CwH].pool)
                 /\ \A k \in 1..Len(visit) : visit[k][2] # "connected"
        /\ (hs[CwH].pc = "relay" /\ visit # <<>>)
              => /\ visit[Len(visit)][2] = "connected"
                 /\ hs[CwH].be = <<hs[CwH].pool, Len(visit)>>

\* a handler that finds no healthy backend starts the full sweep at the
\* first backend of the pool
EmptyHealthyStillSweeps ==
    [][(hs[CwH].pc \in FreePcs /\ hs'[CwH].pc \notin FreePcs
          /\ healthy_backends(cfgCell) = <<>>)
          => /\ hs'[CwH].pc = "sweep2"
             /\ hs'[CwH].idx = 1
             /\ hs'[CwH].visit = <<>>]_vars

\* the step of the full sweep that passes over a backend, and that backend
PassedOver ==
    /\ Len(hs'[CwH].visit) = Len(hs[CwH].visit) + 1
    /\ hs'[CwH].visit[Len(hs'[CwH].visit)][2] \in {"unresolved", "cooldown"}

VisitedBackend == Backend(<<hs[CwH].pool, hs[CwH].idx>>)

\* C27 as stated: with an empty healthy subset and a pool that is not empty
\* the full sweep is made: every backend is visited in pool order, a connect
\* is attempted to each one that is not in cooldown, and the first backend
\* that connects is returned.
C27_FullSweepTriesAllNotInCooldown ==
    /\ []FullSweepInOrder
    /\ EmptyHealthyStillSweeps
    /\ [][PassedOver => is_in_cooldown(VisitedBackend)]_vars

\* C27 as the code has it: a backend is also passed over, without a connect,
\* when its address does not resolve.
C27_FullSweepTriesAllResolvedNotInCooldown ==
    /\ []FullSweepInOrder
    /\ EmptyHealthyStillSweeps
    /\ [][PassedOver
             => \/ hs'[CwH].visit[Len(hs'[CwH].visit)][2] = "unresolved"
                \/ is_in_cooldown(VisitedBackend)]_vars
    /\ [][(hs[CwH].pc = "sweep2" /\ hs'[CwH].pc = "conn2")
             => /\ ~is_in_cooldown(VisitedBackend)
                /\ hs'[CwH].be = <<hs[CwH].pool, hs[CwH].idx>>]_vars

\* the handler found no healthy backend, the first backend did not resolve
\* and the second one connected
C27_Witness ==
    /\ hs[CwH].n0 = 0
    /\ hs[CwH].pc = "relay"
    /\ hs[CwH].visit = <<<<1, "unresolved">>, <<2, "connected">>>>

\* C28: when the full sweep connects to a backend that was unhealthy, the
\* backend is healthy when connect_with_retry returns, whatever the
\* health_check_success_threshold.
C28_FullSweepConnectRecovers ==
    [][(hs[CwH].pc = "conn2" /\ hs'[CwH].pc = "relay"
          /\ ~Backend(hs[CwH].be).healthy)
          => backends'[hs[CwH].be[1]][hs[CwH].be[2]].healthy]_vars

\* the step in which connect_with_retry gives up after both sweeps
AllBackendsFailed == hs[CwH].pc = "sweep2" /\ hs'[CwH].pc = "idle"

\* C29: when neither sweep connects, record_global_unavailable is called, so
\* that protection is enabled afterwards, and the error is returned; the
\* handler releases its slot and creates no ConnectionGuard, and the accept
\* loop and the supervisor go on.
C29_AllFailedIsNotFatal ==
    /\ [][AllBackendsFailed
             => /\ \A k \in 1..Len(hs[CwH].visit) :
                      hs[CwH].visit[k][2] # "connected"
                /\ prot' = record_global_unavailable(prot).p
                /\ prot'.enabled
                /\ prot'.reason = REASON_ALL_BACKENDS_UNAVAILABLE
                /\ hs'[CwH].res = "error"
                /\ activeConns' = activeConns - 1
                /\ hs'[CwH].rel = 1
                /\ backends' = backends
                /\ sup' = sup]_vars
    /\ []((hs[CwH].pc = "idle" /\ hs[CwH].res = "error")
             => /\ sup.pc = "running"
                /\ sup.proxy = "listening"
                /\ activeConns = 0
                /\ \A p \in 1..PoolLen(cfgCell) : backends[cfgCell][p].active = 0)

\* the handler has returned the error after a full sweep in which a connect
\* failed, and protection is enabled for it
C29_Witness ==
    /\ hs[CwH].pc = "idle"
    /\ hs[CwH].res = "error"
    /\ \E k \in 1..Len(hs[CwH].visit) : hs[CwH].visit[k][2] = "failed"
    /\ prot.enabled
    /\ prot.reason = REASON_ALL_BACKENDS_UNAVAILABLE
    /\ activeConns = 0

\* the handler reads is_enabled() once, when it starts, and keeps what it
\* computed from it through both sweeps
FactorReadOnce ==
    [][/\ (hs[CwH].pc \in FreePcs /\ hs'[CwH].pc \notin FreePcs)
           => hs'[CwH].en = prot.enabled
       /\ (hs[CwH].pc \notin FreePcs /\ hs'[CwH].pc \notin FreePcs)
           => hs'[CwH].en = hs[CwH].en /\ hs'[CwH].eff = hs[CwH].eff]_vars

\* a connect failure of the handler is observed in this step
FailureObserved ==
    seen'.tick # seen.tick /\ seen'.kind \in BackendErrorKind

Tuning(c) == <<c.bi, c.bm, c.cooldown>>

\* C30 as stated: the backoff_initial, backoff_max and cooldown_ms passed to
\* mark_connect_failure are exactly twice the tuning values if protection was
\* enabled when the handler read it, and the tuning values otherwise; the
\* factor does not change during the handler's sweeps.
C30_TuningExactlyDoubled ==
    /\ FactorReadOnce
    /\ [][FailureObserved
             => LET t == Tuning(snaps[hs[CwH].cfg])
                IN  seen'.args = IF hs[CwH].en
                                 THEN <<2 * t[1], 2 * t[2], 2 * t[3]>>
                                 ELSE t]_vars

\* C30 as the code has it: the doubling saturates at the largest u64.
C30_TuningDoubledSaturating ==
    /\ FactorReadOnce
    /\ [][FailureObserved
             => LET t == Tuning(snaps[hs[CwH].cfg])
                IN  seen'.args = IF hs[CwH].en
                                 THEN <<Min(2 * t[1], u64_MAX),
                                        Min(2 * t[2], u64_MAX),
                                        Min(2 * t[3], u64_MAX)>>
                                 ELSE t]_vars

\* a handler that found protection enabled has passed the doubled
\* backoff_initial and the saturated backoff_max
C30_Witness ==
    /\ hs[CwH].pc \in {"sweep1", "sweep2"}
    /\ hs[CwH].en
    /\ seen.by = "proxy"
    /\ seen.args = hs[CwH].eff
    /\ seen.args[1] = 2
    /\ seen.args[2] = u64_MAX

\* a record_failure call of the given kinds returns in this step
FailureRecorded(kinds) ==
    /\ pr[1].pc = "idle"
    /\ pr'[1].pc = "returned"
    /\ pr'[1].op = "record_failure"
    /\ pr'[1].kind \in kinds

\* C31: a failure of kind Other leaves the storm window and the enabled flag
\* as they are and reports no transition; a Timeout or ConnectionRefused
\* failure adds one to the window count, and only such a failure enables
\* protection; a failure of any kind zeroes stable_success_count.
C31_OnlyStormKindsCount ==
    /\ [][FailureRecorded({"Other"})
             => /\ prot'.wcount = prot.wcount
                /\ prot'.wstart = prot.wstart
                /\ prot'.enabled = prot.enabled
                /\ prot'.reason = prot.reason
                /\ ~pr'[1].ret]_vars
    /\ [][FailureRecorded(StormKinds)
             => prot'.wcount = AdvanceWindow(prot, clock).wcount + 1]_vars
    /\ [][FailureRecorded(BackendErrorKind) => prot'.stable = 0]_vars
    /\ [][(FailureRecorded(BackendErrorKind) /\ ~prot.enabled /\ prot'.enabled)
             => /\ pr'[1].kind \in StormKinds
                /\ prot'.wcount >= prot.threshold]_vars

\* an Other failure has returned with the window one short of the threshold
\* and protection still disabled
C31_Witness ==
    /\ pr[1].pc = "returned"
    /\ pr[1].op = "record_failure"
    /\ pr[1].kind = "Other"
    /\ prot.wcount >= 1
    /\ prot.wcount = prot.threshold - 1
    /\ ~prot.enabled

\* C32: consecutive_failures saturates at the fail threshold: after any
\* number of mark_failure calls in a row it is at most fail_threshold.
C32_FailuresSaturateAtThreshold ==
    Backend(TheBackend).cf <= snaps[1].failT

\* once every call has returned the counter is the number of increments not
\* yet undone: no increment that ran during a decrement at zero is lost
IncrementNotLost ==
    (\A m \in Markers : mk[m].pc = "idle")
       => Backend(TheBackend).active = Counted(calls)

\* C33: a decrement_connections made at zero is a no-op: the counter never
\* shows more than the connections that are counted, it is 0 when the
\* decrement has returned, and an increment that ran during the decrement is
\* not lost.
C33_DecrementAtZeroIsNoOp ==
    /\ Backend(TheBackend).active <= Counted(calls)
    /\ IncrementNotLost

\* C34: connect_with_retry gives up only when every backend of its pool was,
\* at some moment of the call, found unreachable (its address did not
\* resolve, or a connect to it failed) or in cooldown; so with a backend that
\* is reachable and out of cooldown throughout, the call returns a connected
\* backend, whatever the health flags and wherever the cursor stands.
C34_ReachableBackendIsFound ==
    /\ [][AllBackendsFailed
             => \A p \in 1..PoolLen(hs[CwH].pool) :
                   \E k \in 1..Len(hs[CwH].visit) :
                      /\ hs[CwH].visit[k][1] = p
                      /\ hs[CwH].visit[k][2]
                            \in {"unresolved", "cooldown", "failed"}]_vars
    /\ [][(PassedOver /\ hs'[CwH].visit[Len(hs'[CwH].visit)][2] = "cooldown")
             => is_in_cooldown(VisitedBackend)]_vars
    /\ [][(prot'.reason = REASON_ALL_BACKENDS_UNAVAILABLE
              /\ prot.reason # REASON_ALL_BACKENDS_UNAVAILABLE)
             => AllBackendsFailed]_vars
    /\ [](hs[CwH].pc = "relay"
            => hs[CwH].res = "ok" /\ hs[CwH].be # NoBackend)

\* the healthy sweep and the full sweep's first connect failed, the second
\* backend, unhealthy before and after, connected and is being relayed to
C34_Witness ==
    /\ hs[CwH].pc = "relay"
    /\ hs[CwH].n0 > 0
    /\ hs[CwH].visit = <<<<1, "failed">>, <<2, "connected">>>>
    /\ ~Backend(hs[CwH].be).healthy
    /\ ~prot.enabled

\* no record_* call on the ProtectionMode is in progress
ProtectionAtRest == \A c \in Callers : pr[c].pc \in {"idle", "returned"}

\* C35: whenever no ProtectionMode operation is in progress, enabled goes
\* with the reason of a storm or of all backends unavailable and disabled
\* goes with the reason None, for every interleaving of concurrent calls.
C35_ReasonAgreesWithEnabled ==
    ProtectionAtRest
       => /\ prot.enabled
                => prot.reason \in {REASON_TIMEOUT_REFUSED_STORM,
                                    REASON_ALL_BACKENDS_UNAVAILABLE}
          /\ ~prot.enabled => prot.reason = REASON_NONE

\* C36: whenever no mark_failure / mark_success call on the backend is in
\* progress, a backend with consecutive_failures >= fail_threshold is
\* unhealthy and one with consecutive_successes >= success_threshold is
\* healthy, for every interleaving of concurrent calls.
C36_FlagAgreesWithCounters ==
    (\A m \in Markers : mk[m].pc = "idle")
       => /\ Backend(TheBackend).cf >= snaps[1].failT
                => ~Backend(TheBackend).healthy
          /\ Backend(TheBackend).cs >= snaps[1].succT
                => Backend(TheBackend).healthy

\* the sum of active_connections over the backends of S
RECURSIVE SumActive(_)
SumActive(S) ==
    IF S = {} THEN 0
    ELSE LET be == CHOOSE x \in S : TRUE
         IN  Backend(be).active + SumActive(S \ {be})

\* C37: the live ConnectionGuards, counted by the backends'
\* active_connections over every pool, never outnumber the global count of
\* active connections; so with the global count at zero no backend
\* connection is tracked any more.
C37_GuardsWithinGlobalCount ==
    /\ SumActive(AllBackends) <= activeConns
    /\ activeConns = 0 => \A be \in AllBackends : Backend(be).active = 0

\* C38: each transition from enabled to disabled is reported by exactly one
\* record_success call: a call that goes on to return true has itself turned
\* enabled from true to false, and nothing else turns it off.
C38_DisableReportedOnce ==
    /\ [][\A c \in Callers :
             (pr[c].pc = "dis_enabled" /\ pr'[c].pc = "dis_reason")
                => (prot.enabled /\ ~prot'.enabled)]_vars
    /\ [][(prot.enabled /\ ~prot'.enabled)
             => \E c \in Callers :
                   pr[c].pc = "dis_enabled" /\ pr'[c].pc = "dis_reason"]_vars

\* C39: a successful reload leaves the ProtectionMode as it is, its flag,
\* reason, window and counters, and its threshold, window_ms and
\* stable_recoveries_required stay those of the boot configuration, also
\* when the tuning of the new snapshot names different ones.
C39_ReloadKeepsProtectionMode ==
    /\ [][cfgCell' # cfgCell => prot' = prot]_vars
    /\ [](/\ prot.threshold = snaps[1].pth
          /\ prot.window_ms = snaps[1].pw
          /\ prot.required = snaps[1].pst)

\* a snapshot with another trigger threshold and another number of stable
\* recoveries is installed while protection is enabled
C39_Witness ==
    /\ cfgCell = 2
    /\ snaps[2].pth # snaps[1].pth
    /\ snaps[2].pst # snaps[1].pst
    /\ snaps[2].pw # snaps[1].pw
    /\ prot.enabled
    /\ prot.threshold = snaps[1].pth

\* the connect attempts the handler may still make in its two sweeps
AttemptsLeft ==
    LET h == hs[CwH]
    IN  IF h.pc \in {"sweep1", "conn1"} THEN h.left + PoolLen(h.pool)
        ELSE IF h.pc \in {"sweep2", "conn2"} THEN PoolLen(h.pool) + 1 - h.idx
        ELSE 0

\* C40: an admitted handler makes at most (healthy backends at start + pool
\* size) connect attempts, every attempt and the relay end, and the handler
\* exits with its slot released, so that the global count of active
\* connections is back at zero.
C40_AdmittedHandlerExits ==
    /\ [](AttemptsLeft >= 0)
    /\ [][(hs[CwH].pc \in FreePcs /\ hs'[CwH].pc \notin FreePcs)
             => AttemptsLeft' <= hs'[CwH].n0 + PoolLen(hs'[CwH].pool)]_vars
    /\ [][(hs[CwH].pc \notin FreePcs)
             => AttemptsLeft' <= AttemptsLeft]_vars
    /\ [][(hs[CwH].pc \in ConnectPcs /\ hs'[CwH].pc \notin ConnectPcs
              /\ hs'[CwH].pc # "relay")
             => AttemptsLeft' < AttemptsLeft]_vars
    /\ (hs[CwH].pc \notin FreePcs)
          ~> (hs[CwH].pc \in FreePcs /\ hs[CwH].rel = 1 /\ activeConns = 0)

\* the handler has exited after a relay that followed a failed connect of
\* the healthy sweep, and no connection is counted
C40_Witness ==
    /\ hs[CwH].pc = "idle"
    /\ hs[CwH].res = "ok"
    /\ hs[CwH].rel = 1
    /\ hs[CwH].n0 = 2
    /\ hs[CwH].visit # <<>>
    /\ activeConns = 0

====
